---- MODULE Spec2Model ----
(***************************************************************************)
(* State-machine model of the iiko analytics clients:                      *)
(*   IikoClient        (src/iiko_client.py)        - cloud order API       *)
(*   IikoServerClient  (src/iiko_server_client.py) - on-prem OLAP API      *)
(* One task runs one public operation at a time; every await on the HTTP   *)
(* client is a step whose outcome the backend chooses.                     *)
(***************************************************************************)
EXTENDS Integers, Sequences, FiniteSets, TLC

\* ------------------------------------------------------------------ bounds
MaxOps == 3          \* catalog operations started in one behaviour
MaxFails == 3        \* failing backend responses in one behaviour
MaxTicks == 2        \* idle periods (clock jumps) in one behaviour
MaxSrvOps == 2       \* on-prem operations started in one behaviour
MaxPattern == 0
MaxLines == 3        \* lines of a tab-separated response
MaxElems == 2        \* elements of one kind in an XML response      \* backend order datasets 0..MaxPattern

\* ------------------------------------------------- constants of the program
TOKEN_MINUTES == 55
max_retries == 3
REFRESH_EVERY == 10
NOMENCLATURE_TTL == 1800
SESSION_TTL == 600

SecondsPerDay == 24 * 60 * 60

\* Optional values: None is the empty tuple, a present value is a 1-tuple.
None == <<>>
Some(x) == <<x>>

\* ---------------------------------------------------------------- calendar
\* datetime.strptime(s, "%Y-%m-%d") / strftime("%Y-%m-%d") / timedelta(days=1)
\* A date string is a triple <<year, month, day>>; a datetime is its
\* proleptic Gregorian ordinal (datetime.toordinal).
IsLeap(y) == (y % 4 = 0 /\ y % 100 # 0) \/ (y % 400 = 0)

DaysInMonth(y, m) ==
    IF m = 2 THEN (IF IsLeap(y) THEN 29 ELSE 28)
    ELSE IF m \in {4, 6, 9, 11} THEN 30 ELSE 31

RECURSIVE DaysBeforeMonth(_, _)
DaysBeforeMonth(y, m) ==
    IF m <= 1 THEN 0 ELSE DaysBeforeMonth(y, m - 1) + DaysInMonth(y, m - 1)

ValidDate(s) == s[2] \in 1..12 /\ s[3] \in 1..DaysInMonth(s[1], s[2])

strptime(s) ==
    LET y1 == s[1] - 1
    IN  365 * y1 + (y1 \div 4) - (y1 \div 100) + (y1 \div 400)
        + DaysBeforeMonth(s[1], s[2]) + s[3]

RECURSIVE MonthDay(_, _, _)
MonthDay(y, m, n) ==
    IF n < DaysInMonth(y, m) THEN <<y, m, n + 1>>
    ELSE MonthDay(y, m + 1, n - DaysInMonth(y, m))

strftime(ord) ==
    LET n0   == ord - 1
        n400 == n0 \div 146097
        r400 == n0 % 146097
        n100 == r400 \div 36524
        r100 == r400 % 36524
        n4   == r100 \div 1461
        r4   == r100 % 1461
        n1   == r4 \div 365
        r1   == r4 % 365
        year == n400 * 400 + n100 * 100 + n4 * 4 + n1 + 1
    IN  IF n1 = 4 \/ n100 = 4 THEN <<year - 1, 12, 31>>
        ELSE MonthDay(year, 1, r1)

\* timedelta.seconds: the seconds component of the difference, days dropped
TimedeltaSeconds(later, earlier) == (later - earlier) % SecondsPerDay

\* ------------------------------------------------------------------ inputs
StartDay == <<2024, 3, 12>>      \* calendar date of now = 0
NamedPeriods == {"today", "yesterday", "week", "month"}
ExplicitDates == {<<2024, 2, 29>>, <<2024, 2, 30>>}
DatePairs == {<< <<2024, 2, 28>>, <<2024, 3, 1>> >>,
              << <<2024, 3, 1>>, <<2024, 2, 28>> >>,
              << <<2023, 12, 31>>, <<2024, 1, 1>> >>}
Periods == NamedPeriods \cup ExplicitDates

\* ------------------------------------------------------- backend order data
\* An order as the cloud API returns it.  inner is the nested "order" value:
\* "absent" (no key), "empty" (a falsy value), "live" or "deleted" (an object
\* without / with a truthy isDeleted).  outerDel is isDeleted on the wrapper.
Order(day, k, inner, outerDel) ==
    [day |-> day, k |-> k, inner |-> inner, outerDel |-> outerDel]

DayOrders(p, d) ==
    LET i == (d + p) % 5
    IN  IF i = 0 THEN <<>>
        ELSE IF i = 1 THEN <<Order(d, 1, "absent", FALSE)>>
        ELSE IF i = 2 THEN <<Order(d, 1, "absent", TRUE), Order(d, 2, "live", FALSE)>>
        ELSE IF i = 3 THEN <<Order(d, 1, "deleted", FALSE), Order(d, 2, "live", TRUE)>>
        ELSE <<Order(d, 1, "empty", TRUE), Order(d, 2, "empty", FALSE),
               Order(d, 3, "deleted", TRUE)>>

RECURSIVE RangeOrders(_, _, _)
RangeOrders(p, from, to) ==
    IF from > to THEN <<>> ELSE DayOrders(p, from) \o RangeOrders(p, from + 1, to)

VARIABLES
    \* environment
    now,                \* wall clock, seconds since midnight of StartDay
    pattern,            \* backend dataset
    failsLeft, opsDone, ticks,
    \* IikoClient attributes
    token, token_expires, organization_id,
    nomenclature_cache, nomenclature_cache_time, last_diag,
    \* control of the running task
    pc, stack, exc, ret, op, result,
    \* locals of _collect_all_orders
    date_from, date_to, dt_from, dt_to, span_days, current_day, request_count,
    all_orders, errors, methods_tried, methods_success,
    \* locals of _fetch_orders_chunk, _post, get_nomenclature, _analyze_orders
    chunk_from, chunk_to, attempt, endpoint, nom_now, analyzed,
    \* observation of the run
    authCount, sinceCheck, lastStatus, chunkLog, chunk_sleeps, chunk_sends,
    sentToken,
    \* IikoServerClient attributes
    srv_token, srv_token_time,
    \* locals of the on-prem operations
    sub, fetched, results, issued, cook_ids,
    \* argument and return value of a helper function called on its own
    fn_arg, fn_out,
    \* the coroutines that share one IikoClient on the event loop
    tasks

envVars == <<now, pattern, failsLeft, opsDone, ticks>>
clientVars == <<token, token_expires, organization_id,
                nomenclature_cache, nomenclature_cache_time, last_diag>>
ctlVars == <<pc, stack, exc, ret, op, result>>
collectVars == <<date_from, date_to, dt_from, dt_to, span_days, current_day,
                 request_count, all_orders, errors, methods_tried, methods_success>>
chunkVars == <<chunk_from, chunk_to, attempt>>
miscVars == <<endpoint, nom_now, analyzed>>
obsVars == <<authCount, sinceCheck, lastStatus, chunkLog, chunk_sleeps,
             chunk_sends, sentToken>>
cloudVars == <<envVars, clientVars, ctlVars, collectVars, chunkVars, miscVars, obsVars>>

srvVars == <<srv_token, srv_token_time, sub, fetched, results, issued, cook_ids>>

\* what an on-prem step never touches
cloudOnly == <<pattern, clientVars, collectVars, chunkVars, nom_now, analyzed,
               chunkLog, chunk_sleeps, chunk_sends, fn_arg, fn_out, tasks>>

fnVars == <<fn_arg, fn_out, tasks>>

vars == <<cloudVars, srvVars, fnVars>>

today == strptime(StartDay) + (now \div SecondsPerDay)

\* --------------------------------------------------------------- call stack
Call(target, retLabel) ==
    /\ pc' = target
    /\ stack' = <<retLabel>> \o stack

Return ==
    /\ pc' = Head(stack)
    /\ stack' = Tail(stack)

\* get_sales_summary without its try
OtherHandlerSummaryUncaught(l) ==
    IF l = "chunk_got" THEN "chunk_except"
    ELSE IF l = "col_single_ok" THEN "col_single_err"
    ELSE IF l \in {"op_collected", "op_analyzed"}
            /\ op \in {"get_employees_summary"}
         THEN "op_except"
    ELSE IF l = "sd_got" THEN "sd_except"
    ELSE IF l = "pd_got" THEN "pd_except"
    ELSE IF l = "dbg_emp_got" THEN "dbg_emp_err"
    ELSE IF l = "dbg_get_got" THEN "dbg_get_err"
    ELSE IF l = "tc_done" THEN "tc_except"
    ELSE "none"

\* the except clause, if any, that encloses the call site returning to l
OtherHandler(l) ==
    IF l = "chunk_got" THEN "chunk_except"
    ELSE IF l = "col_single_ok" THEN "col_single_err"
    ELSE IF l \in {"op_collected", "op_analyzed"}
            /\ op \in {"get_sales_summary", "get_employees_summary"}
         THEN "op_except"
    ELSE IF l = "sd_got" THEN "sd_except"
    ELSE IF l = "pd_got" THEN "pd_except"
    ELSE IF l = "dbg_emp_got" THEN "dbg_emp_err"
    ELSE IF l = "dbg_get_got" THEN "dbg_get_err"
    ELSE IF l = "tc_done" THEN "tc_except"
    ELSE "none"

\* the day request called outside the try of the day loop
HandlerDayUncaught(l) == OtherHandler(l)

Handler(l) ==
    IF l = "col_day_ok" THEN "col_day_err" ELSE OtherHandler(l)

RECURSIVE Unwind(_)
Unwind(s) ==
    IF s = <<>> THEN <<"uncaught", <<>>>>
    ELSE IF Handler(Head(s)) # "none" THEN <<Handler(Head(s)), Tail(s)>>
    ELSE Unwind(Tail(s))

Raise(kind) ==
    /\ pc' = Unwind(stack)[1]
    /\ stack' = Unwind(stack)[2]
    /\ exc' = kind

\* a backend response that is an error costs one unit of the failure budget
Fails == failsLeft > 0 /\ failsLeft' = failsLeft - 1

InitAttributes ==
    /\ now = 0 /\ pattern \in 0..MaxPattern
    /\ failsLeft = MaxFails /\ opsDone = 0 /\ ticks = 0
    /\ token = None /\ token_expires = None /\ organization_id = None
    /\ nomenclature_cache = None /\ nomenclature_cache_time = None
    /\ last_diag = None
    /\ pc = "idle" /\ stack = <<>> /\ exc = "none" /\ ret = None
    /\ op = "none" /\ result = None
    /\ date_from = None /\ date_to = None /\ dt_from = 0 /\ dt_to = 0
    /\ span_days = 0 /\ current_day = 0 /\ request_count = 0
    /\ all_orders = <<>> /\ errors = <<>>
    /\ methods_tried = <<>> /\ methods_success = <<>>
    /\ chunk_from = None /\ chunk_to = None /\ attempt = 0
    /\ endpoint = "none" /\ nom_now = 0 /\ analyzed = None
    /\ authCount = 0 /\ sinceCheck = 0 /\ lastStatus = "none"
    /\ chunkLog = <<>> /\ chunk_sleeps = <<>> /\ chunk_sends = 0
    /\ sentToken = None
    /\ srv_token = None /\ srv_token_time = None
    /\ sub = 0 /\ fetched = {} /\ results = {} /\ issued = <<>>
    /\ cook_ids = FALSE

\* one coroutine at a time: no other task shares the clients
InitClients == InitAttributes /\ tasks = <<>>

Init == InitClients /\ fn_arg = None /\ fn_out = None

\* ============================================================== IikoClient
\* ---- _ensure_token
TokenFreshAtExpiry ==
    /\ token # None
    /\ token_expires # None
    /\ now <= token_expires[1]

TokenFresh ==
    /\ token # None
    /\ token_expires # None
    /\ now < token_expires[1]

EnsureTokenCheck ==
    /\ pc = "et_check"
    /\ IF TokenFresh
       THEN /\ Return
            /\ sinceCheck' = 0
       ELSE /\ pc' = "et_auth"
            /\ UNCHANGED <<stack, sinceCheck>>
    /\ UNCHANGED <<envVars, clientVars, exc, ret, op, result, collectVars,
                   chunkVars, miscVars, authCount, lastStatus, chunkLog,
                   chunk_sleeps, chunk_sends, sentToken>>
    /\ UNCHANGED <<srvVars, fnVars>>

EnsureTokenAuth ==
    /\ pc = "et_auth"
    /\ authCount' = authCount + 1
    /\ \/ /\ token' = Some(authCount + 1)
          /\ token_expires' = Some(now + TOKEN_MINUTES * 60)
          /\ Return
          /\ sinceCheck' = 0
          /\ lastStatus' = "ok"
          /\ UNCHANGED <<failsLeft, exc>>
       \/ /\ Fails
          /\ Raise("http")
          /\ lastStatus' = "error"
          /\ UNCHANGED <<token, token_expires, sinceCheck>>
    /\ UNCHANGED <<now, pattern, opsDone, ticks, organization_id,
                   nomenclature_cache, nomenclature_cache_time, last_diag,
                   ret, op, result, collectVars, chunkVars, miscVars,
                   chunkLog, chunk_sleeps, chunk_sends, sentToken>>
    /\ UNCHANGED <<srvVars, fnVars>>

\* ---- _post
PostStart ==
    /\ pc = "post_start"
    /\ Call("et_check", "post_send")
    /\ UNCHANGED <<envVars, clientVars, exc, ret, op, result, collectVars,
                   chunkVars, miscVars, obsVars>>
    /\ UNCHANGED <<srvVars, fnVars>>

\* the body the backend answers a successful request with
\* the backend cuts any single response to its first ROW_LIMIT rows
ROW_LIMIT == 2

Truncate(rows) ==
    IF Len(rows) > ROW_LIMIT THEN SubSeq(rows, 1, ROW_LIMIT) ELSE rows

ResponseBodies ==
    IF endpoint = "organizations" THEN {<<>>, <<"org1">>}
    ELSE IF endpoint = "nomenclature" THEN {"catalog_empty", "catalog_a"}
    ELSE IF endpoint = "stop_lists" THEN {"stop_lists"}
    ELSE {Truncate(RangeOrders(pattern, strptime(chunk_from[1]),
                               strptime(chunk_to[1])))}

PostSend ==
    /\ pc = "post_send"
    /\ sentToken' = token
    /\ sinceCheck' = sinceCheck + 1
    /\ chunk_sends' = IF endpoint = "orders" THEN chunk_sends + 1 ELSE chunk_sends
    /\ pc' = "post_wait"
    /\ UNCHANGED <<envVars, clientVars, stack, exc, ret, op, result, collectVars,
                   chunkVars, miscVars, authCount, lastStatus, chunkLog,
                   chunk_sleeps>>
    /\ UNCHANGED <<srvVars, fnVars>>

PostResponse ==
    /\ pc = "post_wait"
    /\ \/ /\ \E body \in ResponseBodies : ret' = Some(body)
          /\ lastStatus' = "ok"
          /\ Return
          /\ UNCHANGED <<failsLeft, exc>>
       \/ /\ Fails
          /\ \E status \in {"401", "error"} : lastStatus' = status
          /\ Raise("http")
          /\ UNCHANGED ret
    /\ UNCHANGED <<now, pattern, opsDone, ticks, clientVars, op, result,
                   collectVars, chunkVars, miscVars, authCount, sinceCheck,
                   chunkLog, chunk_sleeps, chunk_sends, sentToken>>
    /\ UNCHANGED <<srvVars, fnVars>>

\* ---- get_organization_id
OrgStart ==
    /\ pc = "org_start"
    /\ IF organization_id # None
       THEN /\ ret' = organization_id
            /\ Return
            /\ UNCHANGED endpoint
       ELSE /\ endpoint' = "organizations"
            /\ Call("post_start", "org_got")
            /\ UNCHANGED ret
    /\ UNCHANGED <<envVars, clientVars, exc, op, result, collectVars, chunkVars,
                   nom_now, analyzed, obsVars>>
    /\ UNCHANGED <<srvVars, fnVars>>

OrgGot ==
    /\ pc = "org_got"
    /\ IF ret[1] = <<>>
       THEN /\ Raise("value")
            /\ UNCHANGED <<organization_id, ret>>
       ELSE /\ organization_id' = Some(ret[1][1])
            /\ ret' = Some(ret[1][1])
            /\ Return
            /\ UNCHANGED exc
    /\ UNCHANGED <<envVars, token, token_expires, nomenclature_cache,
                   nomenclature_cache_time, last_diag, op, result, collectVars,
                   chunkVars, miscVars, obsVars>>
    /\ UNCHANGED <<srvVars, fnVars>>

\* ---- get_nomenclature
CacheFresh(t) ==
    /\ nomenclature_cache # None
    /\ nomenclature_cache[1] # "catalog_empty"
    /\ nomenclature_cache_time # None
    /\ TimedeltaSeconds(t, nomenclature_cache_time[1]) < NOMENCLATURE_TTL

NomStart ==
    /\ pc = "nom_start"
    /\ nom_now' = now
    /\ IF CacheFresh(now)
       THEN /\ ret' = nomenclature_cache
            /\ Return
       ELSE /\ Call("org_start", "nom_org")
            /\ UNCHANGED ret
    /\ UNCHANGED <<envVars, clientVars, exc, op, result, collectVars, chunkVars,
                   endpoint, analyzed, obsVars>>
    /\ UNCHANGED <<srvVars, fnVars>>

NomOrg ==
    /\ pc = "nom_org"
    /\ endpoint' = "nomenclature"
    /\ Call("post_start", "nom_got")
    /\ UNCHANGED <<envVars, clientVars, exc, ret, op, result, collectVars,
                   chunkVars, nom_now, analyzed, obsVars>>
    /\ UNCHANGED <<srvVars, fnVars>>

NomGot ==
    /\ pc = "nom_got"
    /\ nomenclature_cache' = ret
    /\ nomenclature_cache_time' = Some(nom_now)
    /\ Return
    /\ UNCHANGED <<envVars, token, token_expires, organization_id, last_diag,
                   exc, ret, op, result, collectVars, chunkVars, miscVars, obsVars>>
    /\ UNCHANGED <<srvVars, fnVars>>

\* ---- _fetch_orders_chunk
ShouldRetryAlways(a) == a < max_retries

ShouldRetry(a) == a < max_retries - 1

RetryWait(a) == (a + 1) * 3

ChunkStart ==
    /\ pc = "chunk_start"
    /\ attempt' = 0
    /\ chunk_sleeps' = <<>>
    /\ chunk_sends' = 0
    /\ pc' = "chunk_try"
    /\ UNCHANGED <<envVars, clientVars, stack, exc, ret, op, result, collectVars,
                   chunk_from, chunk_to, miscVars, authCount, sinceCheck,
                   lastStatus, chunkLog, sentToken>>
    /\ UNCHANGED <<srvVars, fnVars>>

ChunkTry ==
    /\ pc = "chunk_try"
    /\ IF attempt < max_retries
       THEN /\ endpoint' = "orders"
            /\ Call("post_start", "chunk_got")
            /\ UNCHANGED ret
       ELSE /\ ret' = None          \* the loop ran out: the function returns None
            /\ Return
            /\ UNCHANGED endpoint
    /\ UNCHANGED <<envVars, clientVars, exc, op, result, collectVars, chunkVars,
                   nom_now, analyzed, obsVars>>
    /\ UNCHANGED <<srvVars, fnVars>>

ChunkGot ==
    /\ pc = "chunk_got"
    /\ Return
    /\ UNCHANGED <<envVars, clientVars, exc, ret, op, result, collectVars,
                   chunkVars, miscVars, obsVars>>
    /\ UNCHANGED <<srvVars, fnVars>>

ChunkExcept ==
    /\ pc = "chunk_except"
    /\ IF ShouldRetry(attempt)
       THEN /\ pc' = "chunk_sleep"
            /\ UNCHANGED <<stack, exc>>
       ELSE Raise(exc)
    /\ UNCHANGED <<envVars, clientVars, ret, op, result, collectVars, chunkVars,
                   miscVars, obsVars>>
    /\ UNCHANGED <<srvVars, fnVars>>

ChunkSleep ==
    /\ pc = "chunk_sleep"
    /\ now' = now + RetryWait(attempt)
    /\ chunk_sleeps' = Append(chunk_sleeps, RetryWait(attempt))
    /\ token' = None
    /\ attempt' = attempt + 1
    /\ pc' = "chunk_try"
    /\ UNCHANGED <<pattern, failsLeft, opsDone, ticks, token_expires,
                   organization_id, nomenclature_cache, nomenclature_cache_time,
                   last_diag, stack, exc, ret, op, result, collectVars,
                   chunk_from, chunk_to, miscVars, authCount, sinceCheck,
                   lastStatus, chunkLog, chunk_sends, sentToken>>
    /\ UNCHANGED <<srvVars, fnVars>>

\* ---- _collect_all_orders
\* a filter that reads isDeleted on the wrapper only
IsDeletedWrapperOnly(o) == o.outerDel

\* order_obj = o.get("order") or o ; order_obj.get("isDeleted")
IsDeleted(o) ==
    IF o.inner \in {"live", "deleted"} THEN o.inner = "deleted" ELSE o.outerDel

KeepOrder(o) == ~IsDeleted(o)

NeedsSplitOverTwoDays(span) == span > 1

NeedsSplit(span) == span > 0

RefreshDueFromTheTenth(count) == count >= REFRESH_EVERY

RefreshDue(count) == count > 0 /\ count % REFRESH_EVERY = 0

\* diagnostics that count every error-free run as all days ok
DiagAllDaysOk(filtered) ==
    [methods_tried   |-> methods_tried,
     methods_success |-> methods_success,
     total_orders    |-> Len(filtered),
     deleted_orders  |-> Len(all_orders) - Len(filtered),
     errors          |-> errors,
     error_count     |-> Len(errors),
     days_total      |-> IF span_days > 0 THEN span_days + 1 ELSE 1,
     days_ok         |-> IF span_days > 0 THEN span_days + 1 ELSE 1]

\* lines 438-447
Diag(filtered) ==
    [methods_tried   |-> methods_tried,
     methods_success |-> methods_success,
     total_orders    |-> Len(filtered),
     deleted_orders  |-> Len(all_orders) - Len(filtered),
     errors          |-> errors,
     error_count     |-> Len(errors),
     days_total      |-> IF span_days > 0 THEN span_days + 1 ELSE 1,
     days_ok         |-> IF span_days > 0 THEN span_days + 1 - Len(errors)
                         ELSE IF errors # <<>> THEN 0 ELSE 1]

CollectStart ==
    /\ pc = "col_start"
    /\ Call("org_start", "col_org")
    /\ UNCHANGED <<envVars, clientVars, exc, ret, op, result, collectVars,
                   chunkVars, miscVars, obsVars>>
    /\ UNCHANGED <<srvVars, fnVars>>

CollectPlan ==
    /\ pc = "col_org"
    /\ all_orders' = <<>> /\ errors' = <<>> /\ methods_success' = <<>>
    /\ IF ~ValidDate(date_from[1]) \/ ~ValidDate(date_to[1])
       THEN /\ Raise("value")       \* strptime raises ValueError
            /\ UNCHANGED <<dt_from, dt_to, span_days, methods_tried, token,
                           chunk_from, chunk_to, chunkLog>>
       ELSE /\ dt_from' = strptime(date_from[1])
            /\ dt_to' = strptime(date_to[1])
            /\ span_days' = dt_to' - dt_from'
            /\ IF NeedsSplit(span_days')
               THEN /\ methods_tried' = <<"deliveries/daily">>
                    /\ token' = None
                    /\ Call("et_check", "col_refreshed")
                    /\ UNCHANGED <<chunk_from, chunk_to, chunkLog>>
               ELSE /\ methods_tried' = <<"deliveries/by_delivery_date_and_status">>
                    /\ chunk_from' = date_from
                    /\ chunk_to' = date_to
                    /\ chunkLog' = Append(chunkLog, <<date_from[1], date_to[1]>>)
                    /\ Call("chunk_start", "col_single_ok")
                    /\ UNCHANGED token
            /\ UNCHANGED exc
    /\ UNCHANGED <<envVars, token_expires, organization_id, nomenclature_cache,
                   nomenclature_cache_time, last_diag, ret, op, result,
                   date_from, date_to, current_day, request_count, attempt,
                   miscVars, authCount, sinceCheck, lastStatus, chunk_sleeps,
                   chunk_sends, sentToken>>
    /\ UNCHANGED <<srvVars, fnVars>>

CollectRefreshed ==
    /\ pc = "col_refreshed"
    /\ current_day' = dt_from
    /\ request_count' = 0
    /\ pc' = "col_loop"
    /\ UNCHANGED <<envVars, clientVars, stack, exc, ret, op, result, date_from,
                   date_to, dt_from, dt_to, span_days, all_orders, errors,
                   methods_tried, methods_success, chunkVars, miscVars, obsVars>>
    /\ UNCHANGED <<srvVars, fnVars>>

CollectLoop ==
    /\ pc = "col_loop"
    /\ IF current_day <= dt_to
       THEN IF RefreshDue(request_count)
            THEN /\ token' = None
                 /\ Call("et_check", "col_refresh_sleep")
            ELSE /\ pc' = "col_fetch"
                 /\ UNCHANGED <<token, stack>>
       ELSE /\ pc' = "col_filter"
            /\ UNCHANGED <<token, stack>>
    /\ UNCHANGED <<envVars, token_expires, organization_id, nomenclature_cache,
                   nomenclature_cache_time, last_diag, exc, ret, op, result,
                   collectVars, chunkVars, miscVars, obsVars>>
    /\ UNCHANGED <<srvVars, fnVars>>

CollectRefreshSleep ==
    /\ pc = "col_refresh_sleep"
    /\ now' = now + 1
    /\ pc' = "col_fetch"
    /\ UNCHANGED <<pattern, failsLeft, opsDone, ticks, clientVars,
                   stack, exc, ret, op, result, collectVars, chunkVars, miscVars,
                   obsVars>>
    /\ UNCHANGED <<srvVars, fnVars>>

CollectFetch ==
    /\ pc = "col_fetch"
    /\ chunk_from' = Some(strftime(current_day))
    /\ chunk_to' = Some(strftime(current_day))
    /\ chunkLog' = Append(chunkLog, <<strftime(current_day), strftime(current_day)>>)
    /\ Call("chunk_start", "col_day_ok")
    /\ UNCHANGED <<envVars, clientVars, exc, ret, op, result, collectVars, attempt,
                   miscVars, authCount, sinceCheck, lastStatus, chunk_sleeps,
                   chunk_sends, sentToken>>
    /\ UNCHANGED <<srvVars, fnVars>>

PauseDueAfterEveryDay(day, last) == TRUE

\* if current_day <= dt_to: await asyncio.sleep(2)
PauseDue(day, last) == day <= last

PAUSE_SECONDS == 2

\* current_day += timedelta(days=1); request_count += 1; pause if days remain
CollectAdvance ==
    /\ current_day' = current_day + 1
    /\ request_count' = request_count + 1
    /\ pc' = IF PauseDue(current_day', dt_to) THEN "col_pause" ELSE "col_loop"

CollectDayOk ==
    /\ pc = "col_day_ok"
    /\ IF ret = None
       THEN /\ errors' = Append(errors, <<strftime(current_day), "type">>)
            /\ UNCHANGED <<all_orders, methods_success>>
       ELSE /\ all_orders' = all_orders \o ret[1]
            /\ methods_success' =
                 IF ret[1] # <<>>
                 THEN Append(methods_success, <<strftime(current_day), Len(ret[1])>>)
                 ELSE methods_success
            /\ UNCHANGED errors
    /\ CollectAdvance
    /\ UNCHANGED <<envVars, clientVars, stack, exc, ret, op, result, date_from,
                   date_to, dt_from, dt_to, span_days, methods_tried, chunkVars,
                   miscVars, obsVars>>
    /\ UNCHANGED <<srvVars, fnVars>>

CollectDayErr ==
    /\ pc = "col_day_err"
    /\ errors' = Append(errors, <<strftime(current_day), exc>>)
    /\ CollectAdvance
    /\ UNCHANGED <<envVars, clientVars, stack, exc, ret, op, result, date_from,
                   date_to, dt_from, dt_to, span_days, all_orders, methods_tried,
                   methods_success, chunkVars, miscVars, obsVars>>
    /\ UNCHANGED <<srvVars, fnVars>>

CollectPause ==
    /\ pc = "col_pause"
    /\ now' = now + PAUSE_SECONDS
    /\ pc' = "col_loop"
    /\ UNCHANGED <<pattern, failsLeft, opsDone, ticks, clientVars,
                   stack, exc, ret, op, result, collectVars, chunkVars, miscVars,
                   obsVars>>
    /\ UNCHANGED <<srvVars, fnVars>>

CollectSingleOk ==
    /\ pc = "col_single_ok"
    /\ IF ret = None
       THEN /\ errors' = Append(errors, <<"type">>)
            /\ UNCHANGED <<all_orders, methods_success>>
       ELSE /\ all_orders' = all_orders \o ret[1]
            /\ methods_success' =
                 IF ret[1] # <<>>
                 THEN Append(methods_success, <<"deliveries", Len(ret[1])>>)
                 ELSE methods_success
            /\ UNCHANGED errors
    /\ pc' = "col_filter"
    /\ UNCHANGED <<envVars, clientVars, stack, exc, ret, op, result, date_from,
                   date_to, dt_from, dt_to, span_days, current_day, request_count,
                   methods_tried, chunkVars, miscVars, obsVars>>
    /\ UNCHANGED <<srvVars, fnVars>>

CollectSingleErr ==
    /\ pc = "col_single_err"
    /\ errors' = Append(errors, <<exc>>)
    /\ pc' = "col_filter"
    /\ UNCHANGED <<envVars, clientVars, stack, exc, ret, op, result, date_from,
                   date_to, dt_from, dt_to, span_days, current_day, request_count,
                   all_orders, methods_tried, methods_success, chunkVars,
                   miscVars, obsVars>>
    /\ UNCHANGED <<srvVars, fnVars>>

CollectFilter ==
    /\ pc = "col_filter"
    /\ last_diag' = Some(Diag(SelectSeq(all_orders, KeepOrder)))
    /\ ret' = Some(SelectSeq(all_orders, KeepOrder))
    /\ Return
    /\ UNCHANGED <<envVars, token, token_expires, organization_id,
                   nomenclature_cache, nomenclature_cache_time, exc, op, result,
                   collectVars, chunkVars, miscVars, obsVars>>
    /\ UNCHANGED <<srvVars, fnVars>>

\* ---- _analyze_orders (order count; the catalog is read through _get_product_map)
AnalyzeStart ==
    /\ pc = "an_start"
    /\ Call("nom_start", "an_map")
    /\ UNCHANGED <<envVars, clientVars, exc, ret, op, result, collectVars,
                   chunkVars, miscVars, obsVars>>
    /\ UNCHANGED <<srvVars, fnVars>>

AnalyzeFold ==
    /\ pc = "an_map"
    /\ ret' = Some([total_orders |-> Len(analyzed[1])])
    /\ Return
    /\ UNCHANGED <<envVars, clientVars, exc, op, result, collectVars, chunkVars,
                   miscVars, obsVars>>
    /\ UNCHANGED <<srvVars, fnVars>>

\* ---- public consumers
Consumers == {"get_period_totals", "get_period_totals_by_dates",
              "get_sales_summary", "get_employees_summary"}

FirstOfMonth(ord) == strptime(<<strftime(ord)[1], strftime(ord)[2], 1>>)

\* the <<date_from, date_to>> strings a consumer derives from its argument
PeriodDates(o, arg) ==
    IF o = "get_period_totals_by_dates" THEN arg
    ELSE IF o = "get_employees_summary"
    THEN IF arg = "week" THEN <<strftime(today - 7), strftime(today)>>
         ELSE <<strftime(today - 30), strftime(today)>>
    ELSE IF arg = "today" THEN <<strftime(today), strftime(today)>>
    ELSE IF arg = "yesterday" THEN <<strftime(today - 1), strftime(today - 1)>>
    ELSE IF arg = "week" THEN <<strftime(today - 7), strftime(today)>>
    ELSE IF arg = "month" THEN <<strftime(FirstOfMonth(today)), strftime(today)>>
    ELSE <<arg, arg>>

ConsumerArgs(o) ==
    IF o = "get_period_totals_by_dates" THEN DatePairs
    ELSE IF o = "get_employees_summary" THEN {"week", "month"}
    ELSE Periods

ResetRun ==
    /\ dt_from' = 0 /\ dt_to' = 0 /\ span_days' = 0 /\ current_day' = 0
    /\ request_count' = 0 /\ all_orders' = <<>> /\ errors' = <<>>
    /\ methods_tried' = <<>> /\ methods_success' = <<>>
    /\ chunk_from' = None /\ chunk_to' = None /\ attempt' = 0
    /\ endpoint' = "none" /\ nom_now' = 0 /\ analyzed' = None
    /\ sinceCheck' = 0 /\ lastStatus' = "none"
    /\ chunkLog' = <<>> /\ chunk_sleeps' = <<>> /\ chunk_sends' = 0
    /\ sentToken' = None
    /\ exc' = "none" /\ ret' = None /\ result' = None

StartConsumer ==
    /\ pc = "idle"
    /\ op = "none"               \* the first operation of a new client
    /\ \E o \in Consumers : \E arg \in ConsumerArgs(o) :
          /\ op' = o
          /\ date_from' = Some(PeriodDates(o, arg)[1])
          /\ date_to' = Some(PeriodDates(o, arg)[2])
    /\ pc' = "col_start"
    /\ stack' = <<"op_collected">>
    /\ ResetRun
    /\ UNCHANGED <<envVars, clientVars, authCount>>
    /\ UNCHANGED <<srvVars, fnVars>>

StartCatalogOp ==
    /\ pc = "idle"
    /\ opsDone < MaxOps
    /\ opsDone' = opsDone + 1
    /\ \E o \in {"get_nomenclature", "get_stop_list_summary"} :
          /\ op' = o
          /\ pc' = IF o = "get_nomenclature" THEN "nom_start" ELSE "sl_start"
    /\ stack' = <<"op_done">>
    /\ date_from' = None /\ date_to' = None
    /\ ResetRun
    /\ UNCHANGED <<now, pattern, failsLeft, ticks, clientVars, authCount>>
    /\ UNCHANGED <<srvVars, fnVars>>

\* ---- _get_stop_list_items: get_stop_lists, drop the catalog cache, re-read it
StopListStart ==
    /\ pc = "sl_start"
    /\ Call("org_start", "sl_org")
    /\ UNCHANGED <<envVars, clientVars, exc, ret, op, result, collectVars,
                   chunkVars, miscVars, obsVars>>
    /\ UNCHANGED <<srvVars, fnVars>>

StopListOrg ==
    /\ pc = "sl_org"
    /\ endpoint' = "stop_lists"
    /\ Call("post_start", "sl_got")
    /\ UNCHANGED <<envVars, clientVars, exc, ret, op, result, collectVars,
                   chunkVars, nom_now, analyzed, obsVars>>
    /\ UNCHANGED <<srvVars, fnVars>>

StopListGot ==
    /\ pc = "sl_got"
    /\ nomenclature_cache' = None
    /\ pc' = "nom_start"
    /\ UNCHANGED <<envVars, token, token_expires, organization_id,
                   nomenclature_cache_time, last_diag, stack, exc, ret, op,
                   result, collectVars, chunkVars, miscVars, obsVars>>
    /\ UNCHANGED <<srvVars, fnVars>>

ConsumerCollected ==
    /\ pc = "op_collected"
    /\ IF ret[1] = <<>>
       THEN /\ result' = Some([kind |-> "empty", orders |-> 0])
            /\ pc' = "idle"
            /\ UNCHANGED <<stack, analyzed>>
       ELSE /\ analyzed' = ret
            /\ pc' = "an_start"
            /\ stack' = <<"op_analyzed">>
            /\ UNCHANGED result
    /\ UNCHANGED <<envVars, clientVars, exc, ret, op, collectVars, chunkVars,
                   endpoint, nom_now, obsVars>>
    /\ UNCHANGED <<srvVars, fnVars>>

ConsumerAnalyzed ==
    /\ pc = "op_analyzed"
    /\ result' = Some([kind |-> "report", orders |-> ret[1].total_orders])
    /\ pc' = "idle"
    /\ UNCHANGED <<envVars, clientVars, stack, exc, ret, op, collectVars,
                   chunkVars, miscVars, obsVars>>
    /\ UNCHANGED <<srvVars, fnVars>>

ConsumerExcept ==
    /\ pc = "op_except"
    /\ result' = Some([kind |-> "error_text", orders |-> 0])
    /\ pc' = "idle"
    /\ UNCHANGED <<envVars, clientVars, stack, exc, ret, op, collectVars,
                   chunkVars, miscVars, obsVars>>
    /\ UNCHANGED <<srvVars, fnVars>>

OpDone ==
    /\ pc = "op_done"
    /\ result' = Some([kind |-> "value", orders |-> 0])
    /\ pc' = "idle"
    /\ UNCHANGED <<envVars, clientVars, stack, exc, ret, op, collectVars,
                   chunkVars, miscVars, obsVars>>
    /\ UNCHANGED <<srvVars, fnVars>>

Uncaught ==
    /\ pc = "uncaught"
    /\ result' = Some([kind |-> "raised", orders |-> 0])
    /\ pc' = "idle"
    /\ UNCHANGED <<envVars, clientVars, stack, exc, ret, op, collectVars,
                   chunkVars, miscVars, obsVars>>
    /\ UNCHANGED <<srvVars, fnVars>>

\* ---- the clock between operations
TickJumps == {NOMENCLATURE_TTL - 1, NOMENCLATURE_TTL,
              TOKEN_MINUTES * 60 - 1, TOKEN_MINUTES * 60, SecondsPerDay}

Tick ==
    /\ pc = "idle"
    /\ ticks < MaxTicks
    /\ ticks' = ticks + 1
    /\ \E j \in TickJumps : now' = now + j
    /\ UNCHANGED <<pattern, failsLeft, opsDone, clientVars, ctlVars,
                   collectVars, chunkVars, miscVars, obsVars>>
    /\ UNCHANGED <<srvVars, fnVars>>

\* ======================================================== IikoServerClient
srvEnv == <<now, failsLeft, opsDone, ticks>>

\* ---- _ensure_token
SrvTokenFresh ==
    /\ srv_token # None
    /\ srv_token_time # None
    /\ TimedeltaSeconds(now, srv_token_time[1]) < SESSION_TTL

SrvEnsureTokenCheck ==
    /\ pc = "set_check"
    /\ IF SrvTokenFresh
       THEN /\ Return
            /\ sinceCheck' = 0
       ELSE /\ pc' = "set_auth"
            /\ UNCHANGED <<stack, sinceCheck>>
    /\ UNCHANGED <<cloudOnly, srvEnv, exc, ret, op, result, endpoint, authCount,
                   lastStatus, sentToken, srvVars>>

SrvEnsureTokenAuth ==
    /\ pc = "set_auth"
    /\ authCount' = authCount + 1
    /\ \/ /\ srv_token' = Some(authCount + 1)
          /\ srv_token_time' = Some(now)
          /\ Return
          /\ sinceCheck' = 0
          /\ lastStatus' = "ok"
          /\ UNCHANGED <<failsLeft, exc>>
       \/ /\ Fails
          /\ Raise("http")
          /\ lastStatus' = "error"
          /\ UNCHANGED <<srv_token, srv_token_time, sinceCheck>>
    /\ UNCHANGED <<cloudOnly, now, opsDone, ticks, ret, op, result, endpoint,
                   sentToken, sub, fetched, results, issued, cook_ids>>

\* ---- _get
GetBodies ==
    IF endpoint = "employees" THEN {"xml_cooks", "xml_no_cooks", "not_xml"}
    ELSE {"text"}

GetStart ==
    /\ pc = "get_start"
    /\ Call("set_check", "get_send")
    /\ UNCHANGED <<cloudOnly, srvEnv, exc, ret, op, result, endpoint, authCount,
                   sinceCheck, lastStatus, sentToken, srvVars>>

GetSend ==
    /\ pc = "get_send"
    /\ sentToken' = srv_token
    /\ sinceCheck' = sinceCheck + 1
    /\ pc' = "get_wait"
    /\ UNCHANGED <<cloudOnly, srvEnv, stack, exc, ret, op, result, endpoint,
                   authCount, lastStatus, srvVars>>

GetResponse ==
    /\ pc = "get_wait"
    /\ \/ /\ \E body \in GetBodies : ret' = Some(body)
          /\ lastStatus' = "ok"
          /\ Return
          /\ UNCHANGED <<failsLeft, exc>>
       \/ /\ Fails
          /\ \E status \in {"401", "error"} : lastStatus' = status
          /\ Raise("http")
          /\ UNCHANGED ret
    /\ UNCHANGED <<cloudOnly, now, opsDone, ticks, op, result, endpoint,
                   authCount, sinceCheck, sentToken, srvVars>>

\* ---- _olap_request (the parsed row list is "rows" or "empty")
OlapBodies ==
    IF endpoint = "cook_rows" THEN {"rows", "empty"} ELSE {"rows"}

OlapStart ==
    /\ pc = "olap_start"
    /\ Call("set_check", "olap_send")
    /\ UNCHANGED <<cloudOnly, srvEnv, exc, ret, op, result, endpoint, authCount,
                   sinceCheck, lastStatus, sentToken, srvVars>>

OlapSend ==
    /\ pc = "olap_send"
    /\ sentToken' = srv_token
    /\ sinceCheck' = sinceCheck + 1
    /\ pc' = "olap_wait"
    /\ UNCHANGED <<cloudOnly, srvEnv, stack, exc, ret, op, result, endpoint,
                   authCount, lastStatus, srvVars>>

OlapResponse ==
    /\ pc = "olap_wait"
    /\ \/ /\ \E body \in OlapBodies : ret' = Some(body)
          /\ lastStatus' = "ok"
          /\ Return
          /\ UNCHANGED <<failsLeft, exc>>
       \/ /\ Fails
          /\ \E status \in {"401", "error"} : lastStatus' = status
          /\ Raise("http")
          /\ UNCHANGED ret
    /\ UNCHANGED <<cloudOnly, now, opsDone, ticks, op, result, endpoint,
                   authCount, sinceCheck, sentToken, srvVars>>

\* ---- get_sales_data: four narrow queries inside one try
SALES_QUERIES == <<"day_rows", "waiter_rows", "hour_rows", "dish_rows">>

SalesDataNext ==
    /\ pc = "sd_next"
    /\ IF sub <= Len(SALES_QUERIES)
       THEN /\ endpoint' = SALES_QUERIES[sub]
            /\ issued' = Append(issued, SALES_QUERIES[sub])
            /\ Call("olap_start", "sd_got")
            /\ UNCHANGED <<results, ret>>
       ELSE /\ results' = fetched \cup {"multi_query"}
            /\ ret' = Some("dict")
            /\ Return
            /\ UNCHANGED <<endpoint, issued>>
    /\ UNCHANGED <<cloudOnly, srvEnv, exc, op, result, authCount, sinceCheck,
                   lastStatus, sentToken, srv_token, srv_token_time, sub,
                   fetched, cook_ids>>

SalesDataGot ==
    /\ pc = "sd_got"
    /\ fetched' = fetched \cup {SALES_QUERIES[sub]}
    /\ sub' = sub + 1
    /\ pc' = "sd_next"
    /\ UNCHANGED <<cloudOnly, srvEnv, stack, exc, ret, op, result, endpoint,
                   authCount, sinceCheck, lastStatus, sentToken, srv_token,
                   srv_token_time, results, issued, cook_ids>>

SalesDataExcept ==
    /\ pc = "sd_except"
    /\ results' = {"error"}
    /\ ret' = Some("dict")
    /\ Return
    /\ UNCHANGED <<cloudOnly, srvEnv, exc, op, result, endpoint, authCount,
                   sinceCheck, lastStatus, sentToken, srv_token, srv_token_time,
                   sub, fetched, issued, cook_ids>>

\* ---- get_cook_productivity_data: each query in a try of its own
PRODUCTIVITY_QUERIES ==
    <<"cook_rows", "cook_dish_rows", "cook_day_rows", "dish_group_rows",
      "dish_group_day_rows", "dish_hour_rows", "dish_detail_rows", "day_rows",
      "cooking_place_rows", "cooking_time_rows", "cooking_hour_rows">>

\* the two per-cook queries are nested under a non-empty cook_rows
AfterCookQuery(found) == IF found THEN 2 ELSE 4

ProductivityNext ==
    /\ pc = "pd_next"
    /\ IF sub <= Len(PRODUCTIVITY_QUERIES)
       THEN /\ endpoint' = PRODUCTIVITY_QUERIES[sub]
            /\ issued' = Append(issued, PRODUCTIVITY_QUERIES[sub])
            /\ Call("olap_start", "pd_got")
            /\ UNCHANGED <<results, ret>>
       ELSE /\ results' = IF fetched = {} THEN {"error"} ELSE fetched
            /\ ret' = Some("dict")
            /\ Return
            /\ UNCHANGED <<endpoint, issued>>
    /\ UNCHANGED <<cloudOnly, srvEnv, exc, op, result, authCount, sinceCheck,
                   lastStatus, sentToken, srv_token, srv_token_time, sub,
                   fetched, cook_ids>>

ProductivityGot ==
    /\ pc = "pd_got"
    /\ IF sub = 1
       THEN /\ fetched' = IF ret[1] = "rows" THEN fetched \cup {"cook_rows"}
                          ELSE fetched
            /\ sub' = AfterCookQuery(ret[1] = "rows")
       ELSE /\ fetched' = fetched \cup {PRODUCTIVITY_QUERIES[sub]}
            /\ sub' = sub + 1
    /\ pc' = "pd_next"
    /\ UNCHANGED <<cloudOnly, srvEnv, stack, exc, ret, op, result, endpoint,
                   authCount, sinceCheck, lastStatus, sentToken, srv_token,
                   srv_token_time, results, issued, cook_ids>>

ProductivityExcept ==
    /\ pc = "pd_except"
    /\ sub' = IF sub = 1 THEN AfterCookQuery(FALSE) ELSE sub + 1
    /\ pc' = "pd_next"
    /\ UNCHANGED <<cloudOnly, srvEnv, stack, exc, ret, op, result, endpoint,
                   authCount, sinceCheck, lastStatus, sentToken, srv_token,
                   srv_token_time, fetched, results, issued, cook_ids>>

\* ---- get_cook_salary_debug
WAGE_ENDPOINTS ==
    <<"/resto/api/v2/schedule/events", "/resto/api/v2/employees/wages",
      "/resto/api/employees/payroll", "/resto/api/corporation/employees",
      "/resto/api/v2/schedule/resultingSchedule">>

PER_EMPLOYEE_ENDPOINTS ==
    <<"/resto/api/employees/{emp_id}", "/resto/api/v2/employees/{emp_id}",
      "/resto/api/v2/employees/{emp_id}/wages",
      "/resto/api/v2/employees/{emp_id}/schedule">>

REPORT_TYPES ==
    <<"SALES", "TRANSACTIONS", "EMPLOYEE_ATTENDANCES", "STAFF", "PAYROLL",
      "SCHEDULE", "WAGES", "CONSOLIDATED_WAGES", "SALARY">>

WAGE_REPORTS == <<"EMPLOYEE_ATTENDANCES", "CONSOLIDATED_WAGES", "SALARY", "PAYROLL">>

FILTER_VARIANTS == <<"none", "Session.Date", "Date">>

\* requests made through _get: wage endpoints, then the first cook's endpoints
DebugGets(cooks) ==
    Len(WAGE_ENDPOINTS) + (IF cooks THEN Len(PER_EMPLOYEE_ENDPOINTS) ELSE 0)

\* requests made on self.client directly with self.token as the key
DebugDirect == Len(REPORT_TYPES) + Len(WAGE_REPORTS) * Len(FILTER_VARIANTS)

DebugStart ==
    /\ pc = "dbg_start"
    /\ endpoint' = "employees"
    /\ Call("get_start", "dbg_emp_got")
    /\ UNCHANGED <<cloudOnly, srvEnv, exc, ret, op, result, authCount,
                   sinceCheck, lastStatus, sentToken, srvVars>>

DebugEmployeesGot ==
    /\ pc = "dbg_emp_got"
    /\ cook_ids' = (ret[1] = "xml_cooks")   \* a ParseError leaves cook_ids = []
    /\ sub' = 1
    /\ pc' = "dbg_gets"
    /\ UNCHANGED <<cloudOnly, srvEnv, stack, exc, ret, op, result, endpoint,
                   authCount, sinceCheck, lastStatus, sentToken, srv_token,
                   srv_token_time, fetched, results, issued>>

DebugEmployeesErr ==
    /\ pc = "dbg_emp_err"
    /\ cook_ids' = FALSE
    /\ sub' = 1
    /\ pc' = "dbg_gets"
    /\ UNCHANGED <<cloudOnly, srvEnv, stack, exc, ret, op, result, endpoint,
                   authCount, sinceCheck, lastStatus, sentToken, srv_token,
                   srv_token_time, fetched, results, issued>>

DebugGetsNext ==
    /\ pc = "dbg_gets"
    /\ IF sub <= DebugGets(cook_ids)
       THEN /\ endpoint' = "debug"
            /\ Call("get_start", "dbg_get_got")
            /\ UNCHANGED sub
       ELSE /\ sub' = 1
            /\ Call("set_check", "dbg_direct")
            /\ UNCHANGED endpoint
    /\ UNCHANGED <<cloudOnly, srvEnv, exc, ret, op, result, authCount,
                   sinceCheck, lastStatus, sentToken, srv_token, srv_token_time,
                   fetched, results, issued, cook_ids>>

DebugGetDone ==
    /\ pc \in {"dbg_get_got", "dbg_get_err"}
    /\ sub' = sub + 1
    /\ pc' = "dbg_gets"
    /\ UNCHANGED <<cloudOnly, srvEnv, stack, exc, ret, op, result, endpoint,
                   authCount, sinceCheck, lastStatus, sentToken, srv_token,
                   srv_token_time, fetched, results, issued, cook_ids>>

DebugDirectSend ==
    /\ pc = "dbg_direct"
    /\ IF sub <= DebugDirect
       THEN /\ sentToken' = srv_token
            /\ sinceCheck' = sinceCheck + 1
            /\ pc' = "dbg_direct_wait"
            /\ UNCHANGED <<stack, ret>>
       ELSE /\ ret' = Some("text")
            /\ Return
            /\ UNCHANGED <<sentToken, sinceCheck>>
    /\ UNCHANGED <<cloudOnly, srvEnv, exc, op, result, endpoint, authCount,
                   lastStatus, srvVars>>

\* any status and any exception is turned into a line of the debug text
DebugDirectResponse ==
    /\ pc = "dbg_direct_wait"
    /\ \/ /\ lastStatus' = "ok"
          /\ UNCHANGED failsLeft
       \/ /\ Fails
          /\ \E status \in {"401", "error"} : lastStatus' = status
    /\ sub' = sub + 1
    /\ pc' = "dbg_direct"
    /\ UNCHANGED <<cloudOnly, now, opsDone, ticks, stack, exc, ret, op, result,
                   endpoint, authCount, sinceCheck, sentToken, srv_token,
                   srv_token_time, fetched, results, issued, cook_ids>>

\* ---- test_connection
TestConnectionStart ==
    /\ pc = "tc_start"
    /\ Call("set_check", "tc_done")
    /\ UNCHANGED <<cloudOnly, srvEnv, exc, ret, op, result, endpoint, authCount,
                   sinceCheck, lastStatus, sentToken, srvVars>>

TestConnectionDone ==
    /\ pc \in {"tc_done", "tc_except"}
    /\ ret' = Some("text")
    /\ Return
    /\ UNCHANGED <<cloudOnly, srvEnv, exc, op, result, endpoint, authCount,
                   sinceCheck, lastStatus, sentToken, srvVars>>

\* ---- get_olap_report: no try, an exception reaches the caller
OlapReportStart ==
    /\ pc = "or_start"
    /\ Call("set_check", "or_send")
    /\ UNCHANGED <<cloudOnly, srvEnv, exc, ret, op, result, endpoint, authCount,
                   sinceCheck, lastStatus, sentToken, srvVars>>

OlapReportSend ==
    /\ pc = "or_send"
    /\ sentToken' = srv_token
    /\ sinceCheck' = sinceCheck + 1
    /\ pc' = "or_wait"
    /\ UNCHANGED <<cloudOnly, srvEnv, stack, exc, ret, op, result, endpoint,
                   authCount, lastStatus, srvVars>>

OlapReportResponse ==
    /\ pc = "or_wait"
    /\ \/ /\ ret' = Some("text")
          /\ lastStatus' = "ok"
          /\ Return
          /\ UNCHANGED <<failsLeft, exc>>
       \/ /\ Fails
          /\ \E status \in {"401", "error"} : lastStatus' = status
          /\ Raise("http")
          /\ UNCHANGED ret
    /\ UNCHANGED <<cloudOnly, now, opsDone, ticks, op, result, endpoint,
                   authCount, sinceCheck, sentToken, srvVars>>

\* ---- on-prem operations and the clock between them
ServerOps == {"get_sales_data", "get_cook_productivity_data",
              "get_cook_salary_debug", "test_connection", "get_olap_report"}

EntryLabel(o) ==
    IF o = "get_sales_data" THEN "sd_next"
    ELSE IF o = "get_cook_productivity_data" THEN "pd_next"
    ELSE IF o = "get_cook_salary_debug" THEN "dbg_start"
    ELSE IF o = "get_olap_report" THEN "or_start"
    ELSE "tc_start"

StartServerOp ==
    /\ pc = "idle"
    /\ opsDone < MaxSrvOps
    /\ opsDone' = opsDone + 1
    /\ \E o \in ServerOps :
          /\ op' = o
          /\ pc' = EntryLabel(o)
    /\ stack' = <<"op_done">>
    /\ sub' = 1 /\ fetched' = {} /\ results' = {} /\ issued' = <<>>
    /\ cook_ids' = FALSE
    /\ endpoint' = "none" /\ sinceCheck' = 0 /\ lastStatus' = "none"
    /\ sentToken' = None /\ exc' = "none" /\ ret' = None /\ result' = None
    /\ UNCHANGED <<cloudOnly, now, failsLeft, ticks, authCount, srv_token,
                   srv_token_time>>

SrvTickJumps == {SESSION_TTL - 1, SESSION_TTL, SecondsPerDay}

SrvTick ==
    /\ pc = "idle"
    /\ ticks < MaxTicks
    /\ ticks' = ticks + 1
    /\ \E j \in SrvTickJumps : now' = now + j
    /\ UNCHANGED <<cloudOnly, failsLeft, opsDone, ctlVars, endpoint, authCount,
                   sinceCheck, lastStatus, sentToken, srvVars>>

NextServer ==
    \/ SrvEnsureTokenCheck
    \/ SrvEnsureTokenAuth
    \/ GetStart
    \/ GetSend
    \/ GetResponse
    \/ OlapStart
    \/ OlapSend
    \/ OlapResponse
    \/ SalesDataNext
    \/ SalesDataGot
    \/ SalesDataExcept
    \/ ProductivityNext
    \/ ProductivityGot
    \/ ProductivityExcept
    \/ DebugStart
    \/ DebugEmployeesGot
    \/ DebugEmployeesErr
    \/ DebugGetsNext
    \/ DebugGetDone
    \/ DebugDirectSend
    \/ DebugDirectResponse
    \/ TestConnectionStart
    \/ TestConnectionDone
    \/ OlapReportStart
    \/ OlapReportSend
    \/ OlapReportResponse
    \/ StartServerOp
    \/ SrvTick
    \/ OpDone
    \/ Uncaught

\* a bot that only talks to the on-prem server; the cloud dataset plays no part
InitServer == Init /\ pattern = 0

SpecServer == InitServer /\ [][NextServer]_vars

\* actions shared by every operation of IikoClient
CloudCommon ==
    \/ EnsureTokenCheck
    \/ EnsureTokenAuth
    \/ PostStart
    \/ PostSend
    \/ PostResponse
    \/ OrgStart
    \/ OrgGot
    \/ NomStart
    \/ NomOrg
    \/ NomGot
    \/ Uncaught

\* catalog and stop-list operations with idle time in between
NextCloud ==
    \/ CloudCommon
    \/ StartCatalogOp
    \/ StopListStart
    \/ StopListOrg
    \/ StopListGot
    \/ OpDone
    \/ Tick

SpecCloud == Init /\ [][NextCloud]_vars

\* one order collection by a public consumer
NextCollect ==
    \/ CloudCommon
    \/ StartConsumer
    \/ ChunkStart
    \/ ChunkTry
    \/ ChunkGot
    \/ ChunkExcept
    \/ ChunkSleep
    \/ CollectStart
    \/ CollectPlan
    \/ CollectRefreshed
    \/ CollectLoop
    \/ CollectRefreshSleep
    \/ CollectFetch
    \/ CollectDayOk
    \/ CollectDayErr
    \/ CollectPause
    \/ CollectSingleOk
    \/ CollectSingleErr
    \/ CollectFilter
    \/ AnalyzeStart
    \/ AnalyzeFold
    \/ ConsumerCollected
    \/ ConsumerAnalyzed
    \/ ConsumerExcept

SpecCollect == Init /\ [][NextCollect]_vars

\* ================================================================== claims
\* the envelope of an order as the claims read it: order["order"] when the
\* key is present, else the order itself
EnvelopeDeleted(o) ==
    IF o.inner # "absent" THEN o.inner = "deleted" ELSE o.outerDel

LiveCount(orders) ==
    Cardinality({i \in DOMAIN orders : ~EnvelopeDeleted(orders[i])})

\* C1: every order handed to _analyze_orders by a public consumer is
\* non-deleted (its envelope has no truthy isDeleted), and total_orders, in the
\* analysis, in the consumer's result and in the diagnostics, counts only
\* non-deleted orders.
C1_NoDeletedOrderIsAnalyzed ==
    /\ analyzed # None =>
          \A i \in DOMAIN analyzed[1] : ~EnvelopeDeleted(analyzed[1][i])
    /\ pc = "op_analyzed" =>
          /\ ret[1].total_orders = LiveCount(analyzed[1])
          /\ ret[1].total_orders <= LiveCount(all_orders)
    /\ (pc = "idle" /\ result # None /\ result[1].kind = "report") =>
          result[1].orders = LiveCount(analyzed[1])
    /\ (pc = "idle" /\ result # None /\ result[1].kind = "empty") =>
          /\ result[1].orders = 0
          /\ analyzed = None
    /\ last_diag # None => last_diag[1].total_orders <= LiveCount(all_orders)

C1_Witness ==
    /\ pc = "op_analyzed"
    /\ op = "get_period_totals"
    /\ Len(analyzed[1]) > 0
    /\ last_diag[1].deleted_orders > 0
    /\ \E i \in DOMAIN all_orders : all_orders[i].inner = "deleted"
    /\ \E i \in DOMAIN all_orders :
          all_orders[i].inner = "absent" /\ all_orders[i].outerDel

\* the calendar day after a date string, computed on the string itself
NextDate(s) ==
    IF s[3] < DaysInMonth(s[1], s[2]) THEN <<s[1], s[2], s[3] + 1>>
    ELSE IF s[2] < 12 THEN <<s[1], s[2] + 1, 1>>
    ELSE <<s[1] + 1, 1, 1>>

DateLess(a, b) ==
    \/ a[1] < b[1]
    \/ a[1] = b[1] /\ a[2] < b[2]
    \/ a[1] = b[1] /\ a[2] = b[2] /\ a[3] < b[3]

\* one single-day request <<d, d>> per day from a to b, ascending
RECURSIVE DailyRequests(_, _)
DailyRequests(a, b) ==
    IF ~DateLess(a, b) THEN << <<a, a>> >>
    ELSE << <<a, a>> >> \o DailyRequests(NextDate(a), b)

IsPrefix(s, t) == Len(s) <= Len(t) /\ s = SubSeq(t, 1, Len(s))

ProperRange ==
    /\ date_from # None /\ date_to # None
    /\ ValidDate(date_from[1]) /\ ValidDate(date_to[1])
    /\ ~DateLess(date_to[1], date_from[1])

\* C2: in a multi-day collection a day request whose third attempt failed is
\* caught by the day loop, adds exactly one entry (for that day) to the error
\* list, leaves the collected orders untouched and moves on to the next day;
\* the loop is left only past the last day, with every day requested.
C2_DayFailureIsRecordedAndLoopGoesOn ==
    /\ [][(pc = "chunk_except" /\ attempt = 2 /\ Head(stack) = "col_day_ok")
             => pc' = "col_day_err"]_vars
    /\ [][pc = "col_day_err" =>
             /\ Len(errors') = Len(errors) + 1
             /\ SubSeq(errors', 1, Len(errors)) = errors
             /\ errors'[Len(errors')][1] = chunkLog[Len(chunkLog)][1]
             /\ all_orders' = all_orders
             /\ current_day' = current_day + 1
             /\ pc' \in {"col_pause", "col_loop"}]_vars
    /\ [][(pc = "col_loop" /\ pc' = "col_filter") => current_day > dt_to]_vars
    /\ []((pc = "col_filter" /\ span_days > 0) =>
             chunkLog = DailyRequests(date_from[1], date_to[1]))

C2_Witness ==
    /\ pc = "col_filter"
    /\ span_days > 0
    /\ Len(errors) = 1
    /\ \E i \in DOMAIN all_orders : all_orders[i].day < strptime(errors[1][1])
    /\ \E i \in DOMAIN all_orders : all_orders[i].day > strptime(errors[1][1])

\* C9: for date_to later than date_from the collection issues exactly one
\* request per calendar day, each for that single day, ascending from
\* date_from to date_to; for date_from = date_to it issues one request for
\* that day.
C9_OneRequestPerDay ==
    ProperRange =>
       /\ IsPrefix(chunkLog, DailyRequests(date_from[1], date_to[1]))
       /\ \A i \in DOMAIN chunkLog : chunkLog[i][1] = chunkLog[i][2]
       /\ pc = "col_filter" => chunkLog = DailyRequests(date_from[1], date_to[1])
       /\ pc = "col_fetch" => Len(chunkLog) = request_count

C9_Witness ==
    /\ pc = "col_filter"
    /\ span_days >= 2
    /\ Len(chunkLog) = span_days + 1
    /\ chunkLog[1][1][2] # chunkLog[Len(chunkLog)][1][2]
    /\ \E i \in DOMAIN chunkLog : chunkLog[i][1] = <<2024, 2, 29>>

\* C10: a daily order request is attempted at most 3 times; it has slept 3 s
\* after the first failure and 6 s after the second; the token is cleared
\* when a re-attempt starts, so the re-attempt runs the auth exchange; the
\* third failure is raised to the caller at once, without a wait; the call
\* hands its caller a list or an exception, never nothing.
C10_ChunkRetries ==
    /\ [](attempt \in 0..2 /\ chunk_sends <= 3)
    /\ [](chunk_sleeps = IF attempt = 0 THEN <<>>
                         ELSE IF attempt = 1 THEN <<3>> ELSE <<3, 6>>)
    /\ []((pc = "chunk_try" /\ attempt > 0) => token = None)
    /\ []((pc = "et_check" /\ Len(stack) >= 2 /\ stack[2] = "chunk_got"
              /\ attempt > 0) => ~TokenFresh)
    /\ [](pc \in {"col_day_ok", "col_single_ok"} => ret # None)
    /\ [][(pc = "chunk_except" /\ attempt = 2) =>
             /\ pc' \in {"col_day_err", "col_single_err"}
             /\ now' = now
             /\ chunk_sleeps' = chunk_sleeps]_vars
    /\ [][(pc = "chunk_except" /\ attempt < 2) =>
             /\ pc' = "chunk_sleep"
             /\ now' = now]_vars
    /\ [][pc = "chunk_sleep" =>
             /\ now' = now + 3 * (attempt + 1)
             /\ token' = None
             /\ pc' = "chunk_try"]_vars

C10_Witness ==
    /\ pc = "col_day_err"
    /\ attempt = 2
    /\ chunk_sleeps = <<3, 6>>
    /\ chunk_sends = 3

\* ============================================= helpers called on their own
\* every variable of the two clients stays as constructed
FnFrame == UNCHANGED <<cloudVars, srvVars, fn_arg, tasks>>

\* ---- _parse_olap_response, _parse_xml_rows, _parse_tsv_rows
\* A response text is described by what the parser looks at:
\*   pad    whitespace around the text (removed by strip)
\*   lead   the first character left after strip ("" when nothing is left)
\*   json   what json.loads makes of the text
\*   xml    what ET.fromstring makes of it: ok, the elements found by the first
\*          matching row tag, how many of them carry a child or an attribute,
\*          and the elements outside the container tags that carry attributes
\*   tab    a tab character occurs in the text
\*   lines  its lines, and how many of the lines after the header are blank
JsonDocs(lead) ==
    IF lead = "{" THEN {"object_with_list", "object_with_scalar", "object_plain",
                        "object_empty", "invalid"}
    ELSE IF lead = "[" THEN {"array", "invalid"}
    ELSE {"na"}

XmlDocs(lead) ==
    IF lead = "<"
    THEN {[ok |-> FALSE, found |-> 0, filled |-> 0, attrs |-> 0]}
         \cup {[ok |-> TRUE, found |-> f, filled |-> g, attrs |-> a] :
                  f \in 0..MaxElems, g \in 0..MaxElems, a \in 0..MaxElems}
    ELSE {[ok |-> FALSE, found |-> 0, filled |-> 0, attrs |-> 0]}

Texts ==
    {t \in [pad : BOOLEAN, lead : {"", "{", "[", "<", "x"},
            json : {"array", "object_with_list", "object_with_scalar",
                    "object_plain", "object_empty", "invalid", "na"},
            xml : [ok : BOOLEAN, found : 0..MaxElems, filled : 0..MaxElems,
                   attrs : 0..MaxElems],
            tab : BOOLEAN, lines : 1..MaxLines, blank : 0..MaxLines] :
        /\ t.json \in JsonDocs(t.lead)
        /\ t.xml \in XmlDocs(t.lead)
        /\ t.xml.filled <= t.xml.found
        /\ t.blank < t.lines
        /\ (t.lead = "" => (~t.tab /\ t.lines = 1))}

Rows(n) == [i \in 1..n |-> "row"]

Returned(rows) == [kind |-> "list", rows |-> rows]

Raised(e) == [kind |-> "raised", exc |-> e]

\* except ET.ParseError
XmlParseErrorCaught(e) == e = "ParseError"

parse_xml_rows(t) ==
    IF ~t.xml.ok
    THEN IF XmlParseErrorCaught("ParseError") THEN Returned(<<>>)
         ELSE Raised("ParseError")
    ELSE IF t.xml.filled > 0 THEN Returned(Rows(t.xml.filled))
    ELSE Returned(Rows(t.xml.attrs))

parse_tsv_rows(t) ==
    IF t.lines < 2 THEN Returned(<<>>)
    ELSE Returned(Rows(t.lines - 1 - t.blank))

JsonDecodeErrorUncaught(e) == FALSE

\* except json.JSONDecodeError
JsonDecodeErrorCaught(e) == e = "JSONDecodeError"

\* what follows the JSON branch when it did not return
AfterJson(t) ==
    IF t.lead = "<" THEN parse_xml_rows(t)
    ELSE IF t.tab THEN parse_tsv_rows(t)
    ELSE Returned(<<>>)

parse_olap_response(t) ==
    IF t.lead = "" THEN Returned(<<>>)
    ELSE IF t.lead \in {"{", "["}
    THEN IF t.json = "array" THEN Returned(Rows(MaxElems))
         ELSE IF t.json = "object_with_list" THEN Returned(Rows(MaxElems))
         ELSE IF t.json \in {"object_with_scalar", "object_plain"}
              THEN Returned(Rows(1))
         ELSE IF t.json = "object_empty" THEN Returned(<<>>)
         ELSE IF JsonDecodeErrorCaught("JSONDecodeError") THEN AfterJson(t)
         ELSE Raised("JSONDecodeError")
    ELSE AfterJson(t)

ParseOlapResponse ==
    /\ pc = "idle"
    /\ fn_arg # None /\ fn_out = None
    /\ fn_arg[1] \in Texts
    /\ fn_out' = Some(parse_olap_response(fn_arg[1]))
    /\ FnFrame

InitParse ==
    /\ InitClients /\ pattern = 0
    /\ fn_arg \in {Some(t) : t \in Texts}
    /\ fn_out = None

NextParse == ParseOlapResponse

SpecParse == InitParse /\ [][NextParse]_vars

\* ---- reading a logical field of an on-prem OLAP row
\* get_sales_summary and get_cook_productivity_summary read each field with an
\* inline chain  row.get(k1) or row.get(k2) or default.  The localized labels
\* are written here in Latin letters.
K_REVENUE == "DishDiscountSumInt"
L_REVENUE == "Summa so skidkoy"
K_REVENUE_FULL == "DishSumInt"
L_REVENUE_FULL == "Summa bez skidki"
K_QTY == "DishAmountInt"
L_QTY == "Kolichestvo blyud"
K_ORDERS == "UniqOrderId.OrdersCount"
L_ORDERS == "Zakazov"
K_DATE == "OpenDate.Typed"
L_DATE == "Uchetnyy den"
K_WAITER == "OrderWaiter.Name"
L_WAITER == "Ofitsiant zakaza"
K_HOUR == "HourOpen"
L_HOUR == "Chas otkrytiya"
K_DISH == "DishName"
L_DISH == "Blyudo"
K_GROUP == "DishGroup"
L_GROUP == "Gruppa blyuda"

Read(section, field, aliases, default) ==
    [section |-> section, field |-> field, aliases |-> aliases, default |-> default]

\* every read of a logical field, section by section
SECTION_READS ==
    { Read("sales_day", "date", <<K_DATE, L_DATE>>, ""),
      Read("sales_day", "revenue", <<K_REVENUE, L_REVENUE>>, "0"),
      Read("sales_day", "revenue_full", <<K_REVENUE_FULL, L_REVENUE_FULL>>, "0"),
      Read("sales_day", "qty", <<K_QTY, L_QTY>>, "0"),
      Read("sales_day", "orders", <<K_ORDERS, L_ORDERS>>, "0"),
      Read("sales_waiter", "waiter", <<K_WAITER, L_WAITER>>, "?"),
      Read("sales_waiter", "revenue", <<K_REVENUE, L_REVENUE>>, "0"),
      Read("sales_waiter", "orders", <<K_ORDERS, L_ORDERS>>, "0"),
      Read("sales_hour", "hour", <<K_HOUR, L_HOUR>>, ""),
      Read("sales_hour", "revenue", <<K_REVENUE, L_REVENUE>>, "0"),
      Read("sales_dish", "dish", <<K_DISH, L_DISH>>, "?"),
      Read("sales_dish", "group", <<K_GROUP, L_GROUP>>, "?"),
      Read("sales_dish", "revenue", <<K_REVENUE, L_REVENUE>>, "0"),
      Read("sales_dish", "qty", <<K_QTY, L_QTY>>, "0"),
      Read("cook", "qty", <<K_QTY, L_QTY>>, "0"),
      Read("cook", "revenue", <<K_REVENUE, L_REVENUE, K_REVENUE_FULL>>, "0"),
      Read("cook_dish", "group", <<K_GROUP, L_GROUP>>, "?"),
      Read("cook_dish", "qty", <<K_QTY, L_QTY>>, "0"),
      Read("cook_dish", "revenue", <<K_REVENUE_FULL, L_REVENUE_FULL>>, "0"),
      Read("cook_day", "date", <<K_DATE, L_DATE>>, "?"),
      Read("cook_day", "qty", <<K_QTY, L_QTY>>, "0"),
      Read("dish_group", "group", <<K_GROUP, L_GROUP>>, "?"),
      Read("dish_group", "qty", <<K_QTY, L_QTY>>, "0"),
      Read("dish_group", "revenue", <<K_REVENUE, L_REVENUE, K_REVENUE_FULL>>, "0"),
      Read("dish_hour", "group", <<K_GROUP, L_GROUP>>, "?"),
      Read("dish_hour", "hour", <<K_HOUR, L_HOUR>>, "?"),
      Read("dish_hour", "qty", <<K_QTY, L_QTY>>, "0"),
      Read("dish_hour", "revenue", <<K_REVENUE_FULL, L_REVENUE_FULL>>, "0"),
      Read("dish_detail", "group", <<K_GROUP, L_GROUP>>, "?"),
      Read("dish_detail", "dish", <<K_DISH, L_DISH>>, "?"),
      Read("dish_detail", "qty", <<K_QTY, L_QTY>>, "0"),
      Read("dish_detail", "revenue", <<K_REVENUE, L_REVENUE, K_REVENUE_FULL>>, "0") }

LogicalFields == {r.field : r \in SECTION_READS}

ReadsOf(field) == {r \in SECTION_READS : r.field = field}

FieldKeys(field) ==
    UNION {{r.aliases[i] : i \in 1..Len(r.aliases)} : r \in ReadsOf(field)}

\* what a cell of a row can hold: no such key, an empty value, or a value
CellValues == {"absent", "", "a", "b"}

\* x or ...: None, "" and 0 are skipped
Truthy(v) == v \notin {"absent", ""}

RECURSIVE Resolve(_, _, _)
Resolve(row, aliases, default) ==
    IF aliases = <<>> THEN default
    ELSE IF Truthy(row[Head(aliases)]) THEN row[Head(aliases)]
    ELSE Resolve(row, Tail(aliases), default)

ResolveArgs ==
    UNION {{[field |-> f, row |-> r] : r \in [FieldKeys(f) -> CellValues]} :
              f \in LogicalFields}

\* the value every section that reads the field gets from the row
ResolveField ==
    /\ pc = "idle"
    /\ fn_arg # None /\ fn_out = None
    /\ fn_arg[1] \in ResolveArgs
    /\ fn_out' = Some([r \in ReadsOf(fn_arg[1].field) |->
                          Resolve(fn_arg[1].row, r.aliases, r.default)])
    /\ FnFrame

InitResolve ==
    /\ InitClients /\ pattern = 0
    /\ fn_arg \in {Some(a) : a \in ResolveArgs}
    /\ fn_out = None

NextResolve == ResolveField

SpecResolve == InitResolve /\ [][NextResolve]_vars

\* ---- _is_bar_item, _is_bar_group
\* A string is a sequence of characters.  Cyrillic letters are written with
\* one Latin letter or digit each (a b v g d e j z i y k l m n o p r s t u f h
\* c 4 6 7 8 9 3 2 1 5 0 for the alphabet in its order, 5 and 0 for the last
\* two), Latin letters of the source in capitals, and an upper-case letter as
\* "^" followed by its lower-case character.
LOWER_CHARS ==
    <<"a", "b", "v", "g", "d", "e", "j", "z", "i", "y", "k", "l",
      "m", "n", "o", "p", "r", "s", "t", "u", "f", "h", "c", "4",
      "6", "7", "8", "9", "3", "2", "1", "5", "0", "A", "B", "C",
      "D", "E", "F", "G", "H", "I", "J", "K", "L", "M", "N", "O",
      "P", "Q", "R", "S", "T", "U", "V", "W", "X", "Y", "Z">>

UPPER_CHARS ==
    <<"^a", "^b", "^v", "^g", "^d", "^e", "^j", "^z", "^i", "^y", "^k", "^l",
      "^m", "^n", "^o", "^p", "^r", "^s", "^t", "^u", "^f", "^h", "^c", "^4",
      "^6", "^7", "^8", "^9", "^3", "^2", "^1", "^5", "^0", "^A", "^B", "^C",
      "^D", "^E", "^F", "^G", "^H", "^I", "^J", "^K", "^L", "^M", "^N", "^O",
      "^P", "^Q", "^R", "^S", "^T", "^U", "^V", "^W", "^X", "^Y", "^Z">>

LowerChar(c) ==
    IF \E i \in DOMAIN UPPER_CHARS : UPPER_CHARS[i] = c
    THEN LOWER_CHARS[CHOOSE i \in DOMAIN UPPER_CHARS : UPPER_CHARS[i] = c]
    ELSE c

\* str.lower
Lower(s) == [i \in 1..Len(s) |-> LowerChar(s[i])]

RECURSIVE LStrip(_)
LStrip(s) == IF s # <<>> /\ Head(s) = " " THEN LStrip(Tail(s)) ELSE s

RECURSIVE RStrip(_)
RStrip(s) ==
    IF s # <<>> /\ s[Len(s)] = " " THEN RStrip(SubSeq(s, 1, Len(s) - 1)) ELSE s

\* str.strip
Strip(s) == RStrip(LStrip(s))

\* w in s, for a non-empty w
Contains(s, w) ==
    \E i \in 0..(Len(s) - Len(w)) : SubSeq(s, i + 1, i + Len(w)) = w

\* IikoClient.BAR_GROUPS
BAR_GROUPS ==
    { <<"W", "A", "T", "E", "R">>,
      <<"a", "l", "k", "o", "g", "o", "l", "9", "n", "8", "e", " ", "k", "o", "k", "t", "e", "y", "l", "i">>,
      <<"b", "a", "r">>,
      <<"b", "e", "z", "a", "l", "k", "o", "g", "o", "l", "9", "n", "8", "e", " ", "n", "a", "p", "i", "t", "k", "i">>,
      <<"b", "r", "e", "n", "d", "i", " ", "i", " ", "k", "o", "n", "9", "1", "k">>,
      <<"v", "e", "r", "m", "u", "t">>,
      <<"v", "i", "n", "o">>,
      <<"v", "i", "n", "o", " ", "b", "e", "z", "a", "l", "k", "o", "g", "o", "l", "9", "n", "o", "e">>,
      <<"v", "i", "n", "o", " ", "b", "e", "l", "o", "e">>,
      <<"v", "i", "n", "o", " ", "i", "g", "r", "i", "s", "t", "o", "e">>,
      <<"v", "i", "n", "o", " ", "k", "r", "a", "s", "n", "o", "e">>,
      <<"v", "i", "n", "o", " ", "o", "r", "a", "n", "j", "e", "v", "o", "e">>,
      <<"v", "i", "n", "o", " ", "p", "o", " ", "b", "o", "k", "a", "l", "a", "m">>,
      <<"v", "i", "n", "o", " ", "r", "o", "z", "o", "v", "o", "e">>,
      <<"v", "i", "s", "k", "i">>,
      <<"v", "o", "d", "a">>,
      <<"v", "o", "d", "k", "a">>,
      <<"g", "a", "z", "i", "r", "o", "v", "a", "n", "n", "8", "e", " ", "n", "a", "p", "i", "t", "k", "i">>,
      <<"d", "j", "i", "n">>,
      <<"k", "o", "f", "e">>,
      <<"k", "r", "a", "f", "t", "o", "v", "8", "y", " ", "4", "a", "y">>,
      <<"k", "r", "e", "p", "k", "i", "y", " ", "a", "l", "k", "o", "g", "o", "l", "9">>,
      <<"l", "i", "k", "e", "r", "8", " ", "i", " ", "n", "a", "s", "t", "o", "y", "k", "i">>,
      <<"l", "i", "m", "o", "n", "a", "d", "8">>,
      <<"m", "i", "l", "k", "6", "e", "y", "k", "i", " ", "i", " ", "s", "l", "a", "d", "k", "i", "e", " ", "n", "a", "p", "i", "t", "k", "i">>,
      <<"p", "i", "v", "o">>,
      <<"p", "i", "v", "o", " ", "b", "u", "t", "8", "l", "o", "4", "n", "o", "e">>,
      <<"r", "a", "z", "l", "i", "v", "n", "o", "e", " ", "p", "i", "v", "o">>,
      <<"r", "o", "m">>,
      <<"s", "o", "k">>,
      <<"s", "o", "k", "i", "&", "m", "o", "r", "s", "&", "G", "A", "Z", "I", "R", "O", "V", "K", "A">>,
      <<"t", "e", "k", "i", "l", "a">>,
      <<"4", "a", "y">> }

\* IikoClient.BAR_KEYWORDS
BAR_KEYWORDS ==
    { <<"W", "A", "T", "E", "R">>,
      <<"b", "a", "r">>,
      <<"b", "r", "e", "n", "d", "i">>,
      <<"v", "e", "r", "m", "u", "t">>,
      <<"v", "i", "n">>,
      <<"v", "i", "n", "o">>,
      <<"v", "i", "s", "k", "i">>,
      <<"v", "o", "d", "a">>,
      <<"v", "o", "d", "k", "a">>,
      <<"d", "j", "i", "n">>,
      <<"i", "g", "r", "i", "s", "t">>,
      <<"k", "o", "k", "t", "e", "y", "l">>,
      <<"k", "o", "n", "9", "1", "k">>,
      <<"k", "o", "f", "e">>,
      <<"l", "i", "k", "e", "r">>,
      <<"l", "i", "m", "o", "n", "a", "d">>,
      <<"m", "i", "l", "k", "6", "e", "y", "k">>,
      <<"n", "a", "p", "i", "t", "o", "k">>,
      <<"n", "a", "s", "t", "o", "y", "k">>,
      <<"p", "i", "v", "o">>,
      <<"r", "o", "m">>,
      <<"s", "o", "k">>,
      <<"t", "e", "k", "i", "l", "a">>,
      <<"4", "a", "y">>,
      <<"6", "a", "m", "p", "a", "n", "s", "k">> }

\* IikoServerClient.BAR_GROUPS
SERVER_BAR_GROUPS ==
    { <<"W", "A", "T", "E", "R">>,
      <<"a", "l", "k", "o", "g", "o", "l", "9", "n", "8", "e", " ", "k", "o", "k", "t", "e", "y", "l", "i">>,
      <<"b", "a", "r">>,
      <<"b", "e", "z", "a", "l", "k", "o", "g", "o", "l", "9", "n", "8", "e", " ", "n", "a", "p", "i", "t", "k", "i">>,
      <<"b", "r", "e", "n", "d", "i", " ", "i", " ", "k", "o", "n", "9", "1", "k">>,
      <<"v", "e", "r", "m", "u", "t">>,
      <<"v", "i", "n", "o">>,
      <<"v", "i", "n", "o", " ", "b", "e", "z", "a", "l", "k", "o", "g", "o", "l", "9", "n", "o", "e">>,
      <<"v", "i", "n", "o", " ", "b", "e", "l", "o", "e">>,
      <<"v", "i", "n", "o", " ", "i", "g", "r", "i", "s", "t", "o", "e">>,
      <<"v", "i", "n", "o", " ", "k", "r", "a", "s", "n", "o", "e">>,
      <<"v", "i", "n", "o", " ", "o", "r", "a", "n", "j", "e", "v", "o", "e">>,
      <<"v", "i", "n", "o", " ", "p", "o", " ", "b", "o", "k", "a", "l", "a", "m">>,
      <<"v", "i", "n", "o", " ", "r", "o", "z", "o", "v", "o", "e">>,
      <<"v", "i", "s", "k", "i">>,
      <<"v", "o", "d", "a">>,
      <<"v", "o", "d", "k", "a">>,
      <<"g", "a", "z", "i", "r", "o", "v", "a", "n", "n", "8", "e", " ", "n", "a", "p", "i", "t", "k", "i">>,
      <<"d", "j", "i", "n">>,
      <<"k", "o", "f", "e">>,
      <<"k", "r", "a", "f", "t", "o", "v", "8", "y", " ", "4", "a", "y">>,
      <<"k", "r", "e", "p", "k", "i", "y", " ", "a", "l", "k", "o", "g", "o", "l", "9">>,
      <<"l", "i", "k", "e", "r", "8", " ", "i", " ", "n", "a", "s", "t", "o", "y", "k", "i">>,
      <<"l", "i", "m", "o", "n", "a", "d", "8">>,
      <<"m", "i", "l", "k", "6", "e", "y", "k", "i", " ", "i", " ", "s", "l", "a", "d", "k", "i", "e", " ", "n", "a", "p", "i", "t", "k", "i">>,
      <<"p", "i", "v", "o">>,
      <<"p", "i", "v", "o", " ", "b", "u", "t", "8", "l", "o", "4", "n", "o", "e">>,
      <<"r", "a", "z", "l", "i", "v", "n", "o", "e", " ", "p", "i", "v", "o">>,
      <<"r", "o", "m">>,
      <<"s", "o", "k">>,
      <<"s", "o", "k", "i", "&", "m", "o", "r", "s", "&", "G", "A", "Z", "I", "R", "O", "V", "K", "A">>,
      <<"t", "e", "k", "i", "l", "a">>,
      <<"4", "a", "y">> }

NoKeywordIn(s) == FALSE

\* any(kw in s for kw in self.BAR_KEYWORDS)
AnyKeywordIn(s) == \E kw \in BAR_KEYWORDS : Contains(s, kw)

is_bar_item(name, group) ==
    LET g == Strip(Lower(group))
        n == Strip(Lower(name))
    IN  IF g \in BAR_GROUPS THEN TRUE
        ELSE IF AnyKeywordIn(g) THEN TRUE
        ELSE AnyKeywordIn(n)

is_bar_group(group_name) == Strip(Lower(group_name)) \in SERVER_BAR_GROUPS

\* names and groups the classifiers are tried on
ItemNames ==
    { <<>>,
      <<"^b", "o", "r", "7">>,
      <<"^v", "i", "n", "e", "g", "r", "e", "t">>,
      <<"^k", "o", "f", "e", " ", "l", "a", "t", "t", "e">>,
      <<"^c", "e", "z", "a", "r", "9">>,
      <<"^m", "o", "r", "s">>,
      <<"^s", "o", "k", " ", "1", "b", "l", "o", "4", "n", "8", "y">>,
      <<"?">> }

ItemGroups ==
    { <<>>,
      <<"^s", "u", "p", "8">>,
      <<" ", "^v", "i", "n", "o", " ">>,
      <<"^4", "a", "y", " ", "i", " ", "k", "o", "f", "e">>,
      <<"^s", "a", "l", "a", "t", "8">>,
      <<"^d", "r", "u", "g", "o", "e">>,
      <<"^W", "^A", "^T", "^E", "^R">>,
      <<"^g", "r", "u", "p", "p", "a">> }

ClassifyArgs == [name : ItemNames, group : ItemGroups]

MaxCalls == 2

\* one more call of both classifiers on the same (name, group)
ClassifyItem ==
    /\ pc = "idle"
    /\ fn_arg # None
    /\ fn_arg[1] \in ClassifyArgs
    /\ Len(fn_out) < MaxCalls
    /\ fn_out' = Append(fn_out,
                        [item |-> is_bar_item(fn_arg[1].name, fn_arg[1].group),
                         group |-> is_bar_group(fn_arg[1].group)])
    /\ FnFrame

\* the client's state changes between two calls: a catalog gets cached
ClassifyClientChanges ==
    /\ pc = "idle"
    /\ nomenclature_cache = None
    /\ nomenclature_cache' = Some("catalog_a")
    /\ nomenclature_cache_time' = Some(now)
    /\ UNCHANGED <<envVars, token, token_expires, organization_id, last_diag,
                   ctlVars, collectVars, chunkVars, miscVars, obsVars, srvVars,
                   fnVars>>

InitClassify ==
    /\ InitClients /\ pattern = 0
    /\ fn_arg \in {Some(a) : a \in ClassifyArgs}
    /\ fn_out = <<>>

NextClassify ==
    \/ ClassifyItem
    \/ ClassifyClientChanges

SpecClassify == InitClassify /\ [][NextClassify]_vars

\* ---- the stop-list buckets (IikoClient._get_stop_list_items) ------------
\* Product ids and skus are opaque keys; names and groups are strings of
\* characters as above.  A row field that is absent reads as its default:
\* productId "" , sku "" , balance 0.

MaxStopRows == 1

Morse == <<"^m", "o", "r", "s">>
Latte == <<"^k", "o", "f", "e", " ", "l", "a", "t", "t", "e">>
Other == <<"^d", "r", "u", "g", "o", "e">>

\* the map _get_product_map builds: products by id and by code
PRODUCT_MAP ==
    [k \in {"p1", "p2", "p3", "s1"} |->
        CASE k = "p1" -> [name |-> <<"^b", "o", "r", "7">>,
                          group |-> <<"^s", "u", "p", "8">>]
          [] k = "p2" -> [name |-> <<"^v", "i", "n", "e", "g", "r", "e", "t">>,
                          group |-> <<"^s", "a", "l", "a", "t", "8">>]
          [] k = "p3" -> [name |-> <<>>,
                          group |-> <<" ", "^v", "i", "n", "o", " ">>]
          [] k = "s1" -> [name |-> Latte,
                          group |-> <<"^4", "a", "y", " ", "i", " ", "k", "o", "f", "e">>]]

\* extra_products: None, or names for keys the catalog may lack
ExtraProducts == {<<>>, [k \in {"px", "p1"} |-> Morse]}

StopRows == [productId : {"", "p1", "p2", "p3", "px"},
             sku : {"", "s1", "sx"},
             balance : {-1, 0, 1, 5}]

RECURSIVE SeqsUpTo(_, _)
SeqsUpTo(S, n) ==
    IF n = 0 THEN {<<>>}
    ELSE LET shorter == SeqsUpTo(S, n - 1)
         IN shorter \cup {Append(s, x) : s \in shorter, x \in S}

StopListArgs ==
    [rows : SeqsUpTo(StopRows, MaxStopRows) \ {<<>>}, extra : ExtraProducts]

\* lines 218-221: an extra product is added only under a key the map lacks
WithExtra(map, extra) ==
    IF extra = <<>> THEN map
    ELSE [k \in DOMAIN map \cup DOMAIN extra |->
            IF k \in DOMAIN map THEN map[k]
            ELSE [name |-> extra[k], group |-> Other]]

\* dict.get(key): the entry, or None
MapGet(map, key) == IF key \in DOMAIN map THEN Some(map[key]) ELSE None

\* line 233: product_map.get(product_id) or product_map.get(sku) or {}
\* (every entry of the map is a non-empty dict, hence truthy)
ProductInfo(map, item) ==
    LET byId == MapGet(map, item.productId)
        bySku == MapGet(map, item.sku)
    IN IF byId # None THEN byId
       ELSE IF bySku # None THEN bySku
       ELSE None

\* lines 234-235: product_info.get("name", ""), product_info.get("group", "")
InfoName(info) == IF info = None THEN <<>> ELSE info[1].name
InfoGroup(info) == IF info = None THEN <<>> ELSE info[1].group

\* line 238: name or ("арт. <sku>" if sku else None)
Label(name, sku) ==
    IF name # <<>> THEN Some([name |-> name])
    ELSE IF sku # "" THEN Some([art |-> sku])
    ELSE None

IsStopBelowZero(balance) == balance < 0

\* line 243
IsStop(balance) == balance <= 0

\* lines 243-248
BucketKey(is_bar, balance) ==
    IF IsStop(balance)
    THEN (IF is_bar THEN "bar_stop" ELSE "kitchen_stop")
    ELSE (IF is_bar THEN "bar_limits" ELSE "kitchen_limits")

\* lines 244, 247: the text of the line: the label, and the balance if any is left
StopLine(label, balance) ==
    IF IsStop(balance) THEN [label |-> label, left |-> None]
    ELSE [label |-> label, left |-> Some(balance)]

BUCKETS == {"bar_stop", "bar_limits", "kitchen_stop", "kitchen_limits"}

\* lines 223-249: the loop over the rows
RECURSIVE StopListLoop(_, _, _)
StopListLoop(map, items, buckets) ==
    IF items = <<>> THEN buckets
    ELSE LET item == Head(items)
             info == ProductInfo(map, item)
             name == InfoName(info)
             group == InfoGroup(info)
             label == Label(name, item.sku)
             key == BucketKey(is_bar_item(name, group), item.balance)
         IN IF label = None
            THEN StopListLoop(map, Tail(items), buckets)
            ELSE StopListLoop(map, Tail(items),
                     [buckets EXCEPT ![key] =
                         Append(@, StopLine(label[1], item.balance))])

get_stop_list_items(rows, extra) ==
    StopListLoop(WithExtra(PRODUCT_MAP, extra), rows, [k \in BUCKETS |-> <<>>])

GetStopListItems ==
    /\ pc = "idle"
    /\ fn_arg # None
    /\ fn_arg[1] \in StopListArgs
    /\ fn_out = None
    /\ fn_out' = Some(get_stop_list_items(fn_arg[1].rows, fn_arg[1].extra))
    /\ FnFrame

InitStopList ==
    /\ InitClients /\ pattern = 0
    /\ fn_arg \in {Some(a) : a \in StopListArgs}
    /\ fn_out = None

NextStopList == GetStopListItems

SpecStopList == InitStopList /\ [][NextStopList]_vars

\* ---- the order analysis (IikoClient._analyze_orders) --------------------
\* A field of an item or an order is None when absent, else Some(number).
\* Amounts of money are whole numbers here; the quotient of two of them is
\* kept exact, as a reduced fraction.

MaxOrders == 3

UNKNOWN_DISH == "Neizvestno"
WAITER_NOT_SET == "Ne ukazan"

\* _safe_float, lines 454-461
safe_float(value) == IF value = None THEN 0 ELSE value[1]

\* Python's `value or default` on an optional number
OrElse(value, default) ==
    IF value = None \/ value[1] = 0 THEN default ELSE value[1]

\* line 483: self._safe_float(item.get("amount") or 1)
ItemAmount(item) == safe_float(Some(OrElse(item.amount, 1)))

\* lines 486-500
ItemSum(item) ==
    LET amount == ItemAmount(item)
        cost == safe_float(item.cost)
        result_sum == safe_float(item.resultSum)
        price == safe_float(item.price)
        item_sum_direct == safe_float(item.sum)
    IN IF cost > 0 THEN cost
       ELSE IF result_sum > 0 THEN result_sum
       ELSE IF item_sum_direct > 0 THEN item_sum_direct
       ELSE IF price > 0 THEN price * amount
       ELSE 0

\* lines 503-507: the first name found for the item, or the default
DishName(item) == IF item.name = None THEN UNKNOWN_DISH ELSE item.name[1]

\* a defaultdict entry: the stored value, or a fresh one
Entry(dict, key, fresh) == IF key \in DOMAIN dict THEN dict[key] ELSE fresh

Store(dict, key, value) ==
    [k \in DOMAIN dict \cup {key} |-> IF k = key THEN value ELSE dict[k]]

\* lines 478-513: the loop over the items of one order
RECURSIVE ItemsLoop(_, _, _)
ItemsLoop(items, order_sum, dish_sales) ==
    IF items = <<>> THEN [order_sum |-> order_sum, dish_sales |-> dish_sales]
    ELSE LET item == Head(items)
             dish_name == DishName(item)
             old == Entry(dish_sales, dish_name, [qty |-> 0, revenue |-> 0])
         IN ItemsLoop(Tail(items), order_sum + ItemSum(item),
                Store(dish_sales, dish_name,
                      [qty |-> old.qty + ItemAmount(item),
                       revenue |-> old.revenue + ItemSum(item)]))

\* line 474: order.get("order") or order: fields of the wrapper are read from
\* the order itself when there is no wrapper
Outer(order) ==
    IF order.wrapper = None THEN [sum |-> order.sum, resultSum |-> order.resultSum]
    ELSE order.wrapper[1]

\* lines 517-521
OrderSumFallback(order) ==
    LET a == safe_float(order.sum)
        b == safe_float(order.resultSum)
        c == safe_float(Outer(order).sum)
        d == safe_float(Outer(order).resultSum)
    IN IF a # 0 THEN a ELSE IF b # 0 THEN b ELSE IF c # 0 THEN c
       ELSE IF d # 0 THEN d ELSE 0

\* lines 525-538, for a waiter given by name
WaiterName(order) ==
    IF order.waiter = None THEN WAITER_NOT_SET ELSE order.waiter[1]

\* lines 543-552: the hour is counted when the timestamp has 13 characters
CountsHour(order) ==
    order.whenCreated # None /\ order.whenCreated[1].length >= 13

\* lines 472-552: one turn of the loop over the orders
AnalyzeOneOrder(acc, order) ==
    LET folded == ItemsLoop(order.items, 0, acc.dish_sales)
        order_sum == IF folded.order_sum = 0 THEN OrderSumFallback(order)
                     ELSE folded.order_sum
        waiter_name == WaiterName(order)
        w == Entry(acc.waiter_stats, waiter_name, [orders |-> 0, revenue |-> 0])
        hour == order.whenCreated[1].hour
    IN [acc EXCEPT
          !.done = @ + 1,
          !.total_revenue = @ + order_sum,
          !.dish_sales = folded.dish_sales,
          !.waiter_stats = Store(@, waiter_name,
                                 [orders |-> w.orders + 1,
                                  revenue |-> w.revenue + order_sum]),
          !.hourly = IF CountsHour(order)
                     THEN Store(@, hour, Entry(@, hour, 0) + 1) ELSE @]

Abs(n) == IF n < 0 THEN 0 - n ELSE n

RECURSIVE Gcd(_, _)
Gcd(a, b) == IF b = 0 THEN a ELSE Gcd(b, a % b)

\* true division of two whole numbers, exact
Quotient(a, b) ==
    LET g == Gcd(Abs(a), Abs(b))
        s == IF b < 0 THEN 0 - 1 ELSE 1
    IN [num |-> s * (a \div g), den |-> s * (b \div g)]

Zero == [num |-> 0, den |-> 1]

\* a quotient with denominator 0 stands for ZeroDivisionError
AvgCheckUnguarded(total_revenue, total_orders) ==
    IF total_orders # 0 THEN Quotient(total_revenue, total_orders)
    ELSE [num |-> total_revenue, den |-> total_orders]

\* line 554
AvgCheck(total_revenue, total_orders) ==
    IF total_orders > 0 THEN Quotient(total_revenue, total_orders) ELSE Zero

\* iiko_server_client.py lines 298-299 and 322: the average is shown only
\* for a positive order count
ServerAvgCheck(total_revenue, total_orders) ==
    IF total_orders > 0 THEN Some(Quotient(total_revenue, total_orders)) ELSE None

\* -- inputs
NoItemField == [name |-> None, amount |-> None, cost |-> None,
                resultSum |-> None, sum |-> None, price |-> None]

\* every way the four price fields and the amount can be filled
PriceItems ==
    [name : {None}, amount : {None, Some(0), Some(2), Some(-1)},
     cost : {None, Some(500), Some(-50)}, resultSum : {None, Some(300)},
     sum : {None, Some(700)}, price : {None, Some(100), Some(-100)}]

NoOrderField == [items |-> <<>>, sum |-> None, resultSum |-> None,
                 wrapper |-> None, waiter |-> None, whenCreated |-> None]

Noon == Some([length |-> 19, hour |-> "12"])

\* a few whole orders: by cost, by resultSum of the item, by the order's own
\* sum, a returned dish, an order with no amounts, an order inside a wrapper
FewOrders ==
    { [NoOrderField EXCEPT
         !.items = <<[NoItemField EXCEPT !.name = Some("Borsch"),
                                         !.cost = Some(500)]>>,
         !.waiter = Some("Anna"), !.whenCreated = Noon],
      [NoOrderField EXCEPT
         !.items = <<[NoItemField EXCEPT !.cost = Some(0),
                                         !.resultSum = Some(300)]>>,
         !.whenCreated = Some([length |-> 10, hour |-> ""])],
      [NoOrderField EXCEPT
         !.items = <<[NoItemField EXCEPT !.name = Some("Borsch"),
                                         !.amount = Some(2)]>>,
         !.sum = Some(700), !.waiter = Some("Anna"), !.whenCreated = Noon],
      [NoOrderField EXCEPT
         !.items = <<[NoItemField EXCEPT !.name = Some("Borsch"),
                                         !.amount = Some(-1),
                                         !.price = Some(100)]>>,
         !.waiter = Some("Anna")],
      NoOrderField,
      [NoOrderField EXCEPT
         !.wrapper = Some([sum |-> Some(-20), resultSum |-> None])] }

OneItemOrders ==
    {[NoOrderField EXCEPT !.items = <<i>>, !.resultSum = r] :
        i \in PriceItems, r \in {None, Some(40)}}

AnalyzeArgs ==
    [orders : SeqsUpTo(FewOrders, MaxOrders) \cup {<<o>> : o \in OneItemOrders},
     via : {"analyze_orders", "get_period_totals"}]

\* day rows of the on-prem sales summary: (revenue, orders)
ServerDayRows == [revenue : {0, 900}, orders : {0, 3}]

ServerArgs == [rows : SeqsUpTo(ServerDayRows, 2), via : {"server_summary"}]

RECURSIVE SumOver(_, _)
SumOver(rows, field) ==
    IF rows = <<>> THEN 0 ELSE rows[1][field] + SumOver(Tail(rows), field)

\* -- steps
\* lines 466-470
AnalyzeOrdersStart ==
    /\ pc = "idle"
    /\ fn_arg # None /\ fn_out = None
    /\ fn_arg[1].via \in {"analyze_orders", "get_period_totals"}
    \* lines 688, 700: get_period_totals analyzes a non-empty list only
    /\ fn_arg[1].via = "get_period_totals" => fn_arg[1].orders # <<>>
    /\ fn_out' = Some([at |-> "loop", done |-> 0, total_revenue |-> 0,
                       total_orders |-> Len(fn_arg[1].orders),
                       dish_sales |-> <<>>, waiter_stats |-> <<>>,
                       hourly |-> <<>>, avg_check |-> None, totals |-> None])
    /\ FnFrame

\* lines 472-552
AnalyzeOrdersLoop ==
    /\ pc = "idle"
    /\ fn_out # None /\ fn_out[1].at = "loop"
    /\ fn_out[1].done < Len(fn_arg[1].orders)
    /\ fn_out' = Some(AnalyzeOneOrder(fn_out[1],
                                      fn_arg[1].orders[fn_out[1].done + 1]))
    /\ FnFrame

\* lines 554-563
AnalyzeOrdersReturn ==
    /\ pc = "idle"
    /\ fn_out # None /\ fn_out[1].at = "loop"
    /\ fn_out[1].done = Len(fn_arg[1].orders)
    /\ fn_out' = Some([fn_out[1] EXCEPT
                         !.at = "returned",
                         !.avg_check = Some(AvgCheck(fn_out[1].total_revenue,
                                                     fn_out[1].total_orders))])
    /\ FnFrame

\* lines 688-689, 700-701
PeriodTotalsEmpty ==
    /\ pc = "idle"
    /\ fn_arg # None /\ fn_out = None
    /\ fn_arg[1].via = "get_period_totals"
    /\ fn_arg[1].orders = <<>>
    /\ fn_out' = Some([at |-> "totals", done |-> 0, total_revenue |-> 0,
                       total_orders |-> 0,
                       dish_sales |-> <<>>, waiter_stats |-> <<>>,
                       hourly |-> <<>>, avg_check |-> None,
                       totals |-> Some([revenue |-> 0, orders |-> 0,
                                        avg_check |-> Zero])])
    /\ FnFrame

\* lines 690-695, 702-707
PeriodTotalsReturn ==
    /\ pc = "idle"
    /\ fn_out # None /\ fn_out[1].at = "returned"
    /\ fn_arg[1].via = "get_period_totals"
    /\ fn_out' = Some([fn_out[1] EXCEPT
                         !.at = "totals",
                         !.totals = Some([revenue |-> fn_out[1].total_revenue,
                                          orders |-> fn_out[1].total_orders,
                                          avg_check |-> fn_out[1].avg_check[1]])])
    /\ FnFrame

\* iiko_server_client.py lines 270-299
ServerSummaryTotals ==
    /\ pc = "idle"
    /\ fn_arg # None /\ fn_out = None
    /\ fn_arg[1].via = "server_summary"
    /\ LET total_revenue == SumOver(fn_arg[1].rows, "revenue")
           total_orders == SumOver(fn_arg[1].rows, "orders")
       IN fn_out' = Some([at |-> "server", total_revenue |-> total_revenue,
                          total_orders |-> total_orders,
                          avg_line |-> ServerAvgCheck(total_revenue, total_orders)])
    /\ FnFrame

InitAnalyze ==
    /\ InitClients /\ pattern = 0
    /\ fn_arg \in {Some(a) : a \in AnalyzeArgs \cup ServerArgs}
    /\ fn_out = None

NextAnalyze ==
    \/ AnalyzeOrdersStart
    \/ AnalyzeOrdersLoop
    \/ AnalyzeOrdersReturn
    \/ PeriodTotalsEmpty
    \/ PeriodTotalsReturn
    \/ ServerSummaryTotals

SpecAnalyze == InitAnalyze /\ [][NextAnalyze]_vars

\* ---- the cooks' productivity report (cmd_cooks, get_cook_productivity_summary)
\* Revenues, wages and head counts are whole numbers; quotients are exact
\* fractions, and a fraction with denominator 0 stands for ZeroDivisionError.

MaxGroupRows == 2
MaxRaceTicks == 1    \* token lifetimes that pass while coroutines are suspended

\* q / n for a fraction q and a whole number n
DivideBy(q, n) ==
    IF n = 0 \/ q.den = 0 THEN [num |-> q.num, den |-> 0]
    ELSE Quotient(q.num, q.den * n)

Whole(n) == [num |-> n, den |-> 1]

\* q >= n for a fraction q with a positive denominator
AtLeast(q, n) == q.num >= n * q.den

\* dict.get(key, default) on a record
DictGet(dict, key, default) == IF key \in DOMAIN dict THEN dict[key] ELSE default

\* salary_sheet.py lines 63-66, 171-175: the result of fetch_salary_data
SheetData(rates) ==
    [period |-> "", employees |-> rates,
     avg_hourly_rate |-> IF rates = <<>> THEN Zero
                         ELSE Quotient(SumOver([i \in DOMAIN rates |-> [r |-> rates[i]]], "r"),
                                       Len(rates)),
     total_hours |-> 0, count |-> Len(rates), error |-> None]

\* bot.py lines 351-357: the wage read from the salary sheet, 0 if none
SheetSalary(sheet) ==
    IF sheet = None THEN Zero
    ELSE LET salary_data == SheetData(sheet[1])
         IN IF AtLeast(DictGet(salary_data, "avg_daily_salary", Zero), 1)
            THEN salary_data["avg_daily_salary"]
            ELSE Zero

\* bot.py line 364 (wages are whole roubles here)
CmdCooksSalary(sheet, COOK_SALARY_PER_SHIFT) ==
    IF SheetSalary(sheet).num > 0 THEN SheetSalary(sheet).num
    ELSE COOK_SALARY_PER_SHIFT

\* lines 921-922
EffectiveSalary(iiko_salary, cook_salary) ==
    IF iiko_salary > 0 THEN iiko_salary ELSE cook_salary

EffectiveCooks(iiko_cook_count, cooks_per_shift) ==
    IF iiko_cook_count > 0 THEN iiko_cook_count ELSE cooks_per_shift

\* line 1106
NumDays(day_rows) == IF day_rows # <<>> THEN Len(day_rows) ELSE 1

CanComputeWithoutWage(effective_cooks, effective_salary, dish_group_rows) ==
    effective_cooks > 0 /\ dish_group_rows # <<>>

\* line 1130
CanCompute(effective_cooks, effective_salary, dish_group_rows) ==
    effective_cooks > 0 /\ effective_salary > 0 /\ dish_group_rows # <<>>

\* lines 1141-1150: revenue of the rows _is_bar_group does not take for bar
RECURSIVE KitchenRevTotal(_)
KitchenRevTotal(dish_group_rows) ==
    IF dish_group_rows = <<>> THEN 0
    ELSE (IF is_bar_group(Head(dish_group_rows).group) THEN 0
          ELSE Head(dish_group_rows).revenue)
         + KitchenRevTotal(Tail(dish_group_rows))

\* lines 1176-1183
Band(coeff_total) ==
    IF AtLeast(coeff_total, 3) THEN "excellent"
    ELSE IF AtLeast(coeff_total, 2) THEN "good"
    ELSE IF AtLeast(coeff_total, 1) THEN "satisfactory"
    ELSE "low"

\* lines 1187-1191
Missing(effective_cooks, effective_salary) ==
    (IF effective_cooks <= 0 THEN {"cooks"} ELSE {})
        \cup (IF effective_salary <= 0 THEN {"salary"} ELSE {})

\* lines 1107-1125: the divisors of the day totals
DayTotalDivisors(day_rows) ==
    IF day_rows = <<>> THEN {}
    ELSE (IF SumOver(day_rows, "orders") > 0 THEN {SumOver(day_rows, "orders")} ELSE {})
         \cup (IF NumDays(day_rows) > 0 THEN {NumDays(day_rows)} ELSE {})

\* lines 905-1198
cook_productivity_summary(a, sheet_salary, cook_salary) ==
    LET effective_salary == EffectiveSalary(a.iiko_salary, cook_salary)
        effective_cooks == EffectiveCooks(a.iiko_cook_count, a.cooks_per_shift)
        num_days == NumDays(a.day_rows)
        kitchen_rev_total == KitchenRevTotal(a.dish_group_rows)
        daily_total == DivideBy(Whole(kitchen_rev_total), num_days)
        per_cook_total == DivideBy(daily_total, effective_cooks)
        coeff_total == DivideBy(per_cook_total, effective_salary)
        common == [at |-> "report", sheet_salary |-> sheet_salary,
                   cook_salary |-> cook_salary,
                   effective_salary |-> effective_salary,
                   effective_cooks |-> effective_cooks, num_days |-> num_days]
    IN IF a.data_error THEN [at |-> "error", sheet_salary |-> sheet_salary,
                             cook_salary |-> cook_salary]
       ELSE IF CanCompute(effective_cooks, effective_salary, a.dish_group_rows)
       THEN common @@ [section |-> "coefficient",
                       kitchen_rev_total |-> kitchen_rev_total,
                       coeff_total |-> coeff_total,
                       band |-> Band(coeff_total),
                       divisors |-> DayTotalDivisors(a.day_rows)
                                    \cup {num_days, effective_cooks, effective_salary}]
       ELSE common @@ [section |-> "missing",
                       missing |-> Missing(effective_cooks, effective_salary),
                       divisors |-> DayTotalDivisors(a.day_rows)]

\* -- inputs
GroupRows ==
    [group : { <<"^s", "u", "p", "8">>,
               <<"^4", "a", "y", " ", "i", " ", "k", "o", "f", "e">>,
               <<" ", "^v", "i", "n", "o", " ">> },
     revenue : {6000, 18000}]

\* hourly rates of the cooks found in the sheet; None: no sheet is attached
Sheets == {None, Some(<<>>), Some(<<250>>)}

ProductivityArgs ==
    [sheet : Sheets, COOK_SALARY_PER_SHIFT : {-100, 0, 1000},
     cooks_per_shift : {0, 3},
     iiko_salary : {0, 3000}, iiko_cook_count : {0, 2},
     day_rows : SeqsUpTo([orders : {0, 5}], 2),
     dish_group_rows : SeqsUpTo(GroupRows, MaxGroupRows),
     data_error : {FALSE},
     via : {"cmd_cooks"}]
    \cup
    [sheet : {None}, COOK_SALARY_PER_SHIFT : {1000}, cooks_per_shift : {3},
     iiko_salary : {0}, iiko_cook_count : {0}, day_rows : {<<>>},
     dish_group_rows : {<<>>}, data_error : {TRUE}, via : {"cmd_cooks"}]

\* -- steps
\* bot.py lines 350-364
CmdCooksWage ==
    /\ pc = "idle"
    /\ fn_arg # None /\ fn_out = None
    /\ fn_arg[1].via = "cmd_cooks"
    /\ fn_out' = Some([at |-> "wage",
                       sheet_salary |-> SheetSalary(fn_arg[1].sheet).num,
                       cook_salary |-> CmdCooksSalary(fn_arg[1].sheet,
                                                      fn_arg[1].COOK_SALARY_PER_SHIFT)])
    /\ FnFrame

\* bot.py lines 367-373
CookProductivitySummary ==
    /\ pc = "idle"
    /\ fn_out # None /\ fn_out[1].at = "wage"
    /\ fn_out' = Some(cook_productivity_summary(fn_arg[1], fn_out[1].sheet_salary,
                                                 fn_out[1].cook_salary))
    /\ FnFrame

InitProductivity ==
    /\ InitClients /\ pattern = 0
    /\ fn_arg \in {Some(a) : a \in ProductivityArgs}
    /\ fn_out = None

NextProductivity ==
    \/ CmdCooksWage
    \/ CookProductivitySummary

SpecProductivity == InitProductivity /\ [][NextProductivity]_vars

\* ================================== two coroutines sharing one IikoClient
\* The event loop runs one coroutine at a time and switches only where the
\* running one suspends: at the two client.post awaits and at the
\* asyncio.sleep awaits.  tasks.running is the coroutine that holds the loop
\* (0 when every coroutine is suspended or has not started); tasks.co[t] is
\* the frame of get_sales_summary run by coroutine t.
Tasks == {1, 2}

\* span_days of the period a request asks for: one day, or two days
RaceSpans == {0, 1}

Co(t) == tasks.co[t]

Runs(t) == tasks.running = t

Suspended(t, at) == tasks.running = 0 /\ Co(t).pc \in at

Step(t, frame, running) ==
    tasks' = [running |-> running, co |-> [tasks.co EXCEPT ![t] = frame]]

NewTask ==
    [pc |-> "start", site |-> "none", span |-> 0, day |-> 0,
     request_count |-> 0, attempt |-> 0, errors |-> 0, orders |-> FALSE,
     raced |-> FALSE, overwrote |-> FALSE, sent |-> None, rendered |-> None]

raceRest == <<pattern, opsDone, ctlVars, collectVars, chunkVars, miscVars,
              sinceCheck, lastStatus, chunkLog, chunk_sleeps, chunk_sends,
              sentToken, srvVars, fn_arg, fn_out>>

\* ---- _ensure_token, the test of its first line
MustAuthenticateOnExpiryOnly ==
    token_expires = None \/ now >= token_expires[1]

MustAuthenticate == ~TokenFresh

\* ---- _ensure_token, the two assignments after the response
StoredByAuthKeepingEarlier(id, at) ==
    IF token # None /\ token_expires # None /\ at < token_expires[1]
    THEN [token |-> token, token_expires |-> token_expires]
    ELSE [token |-> Some(id), token_expires |-> Some(at + TOKEN_MINUTES * 60)]

StoredByAuth(id, at) ==
    [token |-> Some(id), token_expires |-> Some(at + TOKEN_MINUTES * 60)]

\* where control goes when _ensure_token returns to its caller
AfterEnsure(site) ==
    CASE site = "loop" -> "loop"
      [] site = "refresh" -> "refresh_sleep"
      [] OTHER -> "header"

\* the except clause that catches an error raised at a call site
ExceptAt(site) ==
    IF site = "chunk" THEN "chunk_except" ELSE "failed"

\* ---- get_sales_summary is scheduled
RaceStart(t) ==
    /\ tasks.running = 0
    /\ Co(t).pc = "start"
    /\ t = 1 \/ Co(1).pc # "start"
    /\ \E span \in RaceSpans :
          Step(t, [Co(t) EXCEPT !.pc = "org", !.span = span], t)
    /\ UNCHANGED <<envVars, clientVars, authCount, raceRest>>

\* ---- get_organization_id
RaceOrganization(t) ==
    /\ Runs(t)
    /\ Co(t).pc = "org"
    /\ IF organization_id # None
       THEN Step(t, [Co(t) EXCEPT !.pc = "plan"], t)
       ELSE Step(t, [Co(t) EXCEPT !.pc = "ensure", !.site = "org"], t)
    /\ UNCHANGED <<envVars, clientVars, authCount, raceRest>>

\* ---- _collect_all_orders up to the first request
RacePlan(t) ==
    /\ Runs(t)
    /\ Co(t).pc = "plan"
    /\ IF Co(t).span > 0
       THEN /\ token' = None
            /\ Step(t, [Co(t) EXCEPT !.pc = "ensure", !.site = "loop"], t)
       ELSE /\ token' = token
            /\ Step(t, [Co(t) EXCEPT !.pc = "ensure", !.site = "chunk",
                                     !.attempt = 0], t)
    /\ UNCHANGED <<envVars, token_expires, organization_id, nomenclature_cache,
                   nomenclature_cache_time, last_diag, authCount, raceRest>>

\* ---- _ensure_token up to its await
RaceEnsureToken(t) ==
    /\ Runs(t)
    /\ Co(t).pc = "ensure"
    /\ IF MustAuthenticate
       THEN Step(t, [Co(t) EXCEPT !.pc = "auth_wait", !.raced = FALSE], 0)
       ELSE LET to == AfterEnsure(Co(t).site)
            IN  Step(t, [Co(t) EXCEPT !.pc = to],
                     IF to = "refresh_sleep" THEN 0 ELSE t)
    /\ UNCHANGED <<envVars, clientVars, authCount, raceRest>>

\* ---- _ensure_token from the response of the auth exchange.  The token of
\* an exchange is identified by the coroutine it was issued to; a coroutine
\* whose own exchange is in flight when this one completes has raced it.
RaceAuthResponse(t) ==
    /\ Suspended(t, {"auth_wait"})
    /\ \/ /\ LET stored == StoredByAuth(t, now)
                 to == AfterEnsure(Co(t).site)
             IN  /\ token' = stored.token
                 /\ token_expires' = stored.token_expires
                 /\ tasks' = [running |-> IF to = "refresh_sleep" THEN 0 ELSE t,
                              co |-> [u \in Tasks |->
                                  IF u = t
                                  THEN [Co(t) EXCEPT !.pc = to, !.raced = FALSE,
                                                     !.overwrote = @ \/ Co(t).raced]
                                  ELSE [Co(u) EXCEPT
                                          !.raced = @ \/ Co(u).pc = "auth_wait"]]]
          /\ UNCHANGED failsLeft
       \/ /\ Fails
          /\ Step(t, [Co(t) EXCEPT !.pc = ExceptAt(Co(t).site),
                                   !.raced = FALSE], t)
          /\ UNCHANGED <<token, token_expires>>
    /\ UNCHANGED <<now, pattern, opsDone, ticks, organization_id,
                   nomenclature_cache, nomenclature_cache_time, last_diag,
                   authCount, raceRest>>

\* ---- _post: the header is built and the request sent
RaceHeader(t) ==
    /\ Runs(t)
    /\ Co(t).pc = "header"
    /\ Step(t, [Co(t) EXCEPT !.pc = "post_wait", !.sent = Some(token)], 0)
    /\ UNCHANGED <<envVars, clientVars, authCount, raceRest>>

\* ---- _post from the response, and what its caller does with the body
RacePostResponse(t) ==
    /\ Suspended(t, {"post_wait"})
    /\ \/ /\ Co(t).site = "org"
          /\ organization_id' = Some("org1")
          /\ Step(t, [Co(t) EXCEPT !.pc = "plan", !.sent = None], t)
          /\ UNCHANGED <<failsLeft, nomenclature_cache, nomenclature_cache_time>>
       \/ /\ Co(t).site = "chunk"
          /\ \E got \in BOOLEAN :
                Step(t, [Co(t) EXCEPT !.pc = "day_done", !.sent = None,
                                      !.orders = @ \/ got], t)
          /\ UNCHANGED <<failsLeft, organization_id, nomenclature_cache,
                         nomenclature_cache_time>>
       \/ /\ Co(t).site = "nom"
          /\ nomenclature_cache' = Some("catalog")
          /\ nomenclature_cache_time' = Some(now)
          /\ Step(t, [Co(t) EXCEPT !.pc = "format", !.sent = None], t)
          /\ UNCHANGED <<failsLeft, organization_id>>
       \/ /\ Fails
          /\ Step(t, [Co(t) EXCEPT !.pc = ExceptAt(Co(t).site),
                                   !.sent = None], t)
          /\ UNCHANGED <<organization_id, nomenclature_cache,
                         nomenclature_cache_time>>
    /\ UNCHANGED <<now, pattern, opsDone, ticks, token, token_expires,
                   last_diag, authCount, raceRest>>

\* ---- _fetch_orders_chunk, the except clause
RaceChunkExcept(t) ==
    /\ Runs(t)
    /\ Co(t).pc = "chunk_except"
    /\ IF Co(t).attempt < max_retries - 1
       THEN Step(t, [Co(t) EXCEPT !.pc = "retry_sleep"], 0)
       ELSE Step(t, [Co(t) EXCEPT !.pc = "day_done", !.errors = @ + 1], t)
    /\ UNCHANGED <<envVars, clientVars, authCount, raceRest>>

\* ---- _fetch_orders_chunk after the sleep of a retry
RaceRetryWake(t) ==
    /\ Suspended(t, {"retry_sleep"})
    /\ token' = None
    /\ Step(t, [Co(t) EXCEPT !.pc = "ensure", !.attempt = @ + 1], t)
    /\ UNCHANGED <<envVars, token_expires, organization_id, nomenclature_cache,
                   nomenclature_cache_time, last_diag, authCount, raceRest>>

\* ---- _collect_all_orders, the end of one day
RaceDayDone(t) ==
    /\ Runs(t)
    /\ Co(t).pc = "day_done"
    /\ IF Co(t).span = 0
       THEN Step(t, [Co(t) EXCEPT !.pc = "filter"], t)
       ELSE IF Co(t).day + 1 <= Co(t).span
            THEN Step(t, [Co(t) EXCEPT !.pc = "pause", !.day = @ + 1,
                                       !.request_count = @ + 1], 0)
            ELSE Step(t, [Co(t) EXCEPT !.pc = "loop", !.day = @ + 1,
                                       !.request_count = @ + 1], t)
    /\ UNCHANGED <<envVars, clientVars, authCount, raceRest>>

\* ---- _collect_all_orders after the pause between days or after a refresh
RaceWake(t) ==
    /\ Suspended(t, {"pause", "refresh_sleep"})
    /\ Step(t, [Co(t) EXCEPT
                  !.pc = IF @ = "pause" THEN "loop" ELSE "fetch"], t)
    /\ UNCHANGED <<envVars, clientVars, authCount, raceRest>>

\* ---- _collect_all_orders, the head of the day loop
RaceLoop(t) ==
    /\ Runs(t)
    /\ Co(t).pc \in {"loop", "fetch"}
    /\ IF Co(t).pc = "loop" /\ Co(t).day > Co(t).span
       THEN /\ Step(t, [Co(t) EXCEPT !.pc = "filter"], t)
            /\ token' = token
       ELSE IF Co(t).pc = "loop" /\ RefreshDue(Co(t).request_count)
            THEN /\ token' = None
                 /\ Step(t, [Co(t) EXCEPT !.pc = "ensure",
                                          !.site = "refresh"], t)
            ELSE /\ token' = token
                 /\ Step(t, [Co(t) EXCEPT !.pc = "ensure", !.site = "chunk",
                                          !.attempt = 0], t)
    /\ UNCHANGED <<envVars, token_expires, organization_id, nomenclature_cache,
                   nomenclature_cache_time, last_diag, authCount, raceRest>>

\* what _collect_all_orders records of the run of coroutine t
RaceDiag(t) ==
    [owner |-> t,
     days_total |-> Co(t).span + 1,
     error_count |-> Co(t).errors,
     found |-> Co(t).orders]

\* ---- _collect_all_orders from the deletion filter to its return
RaceFilter(t) ==
    /\ Runs(t)
    /\ Co(t).pc = "filter"
    /\ last_diag' = Some(RaceDiag(t))
    /\ Step(t, [Co(t) EXCEPT !.pc = "summary"], t)
    /\ UNCHANGED <<envVars, token, token_expires, organization_id,
                   nomenclature_cache, nomenclature_cache_time, authCount,
                   raceRest>>

\* ---- get_sales_summary after the collection: the empty text is built at
\* once, the report only after _analyze_orders has its catalog
RaceSummary(t) ==
    /\ Runs(t)
    /\ Co(t).pc = "summary"
    /\ IF ~Co(t).orders
       THEN Step(t, [Co(t) EXCEPT !.pc = "done", !.rendered = last_diag], 0)
       ELSE IF CacheFresh(now)
            THEN Step(t, [Co(t) EXCEPT !.pc = "format"], t)
            ELSE Step(t, [Co(t) EXCEPT !.pc = "ensure", !.site = "nom"], t)
    /\ UNCHANGED <<envVars, clientVars, authCount, raceRest>>

\* ---- _format_analysis
RaceFormat(t) ==
    /\ Runs(t)
    /\ Co(t).pc = "format"
    /\ Step(t, [Co(t) EXCEPT !.pc = "done", !.rendered = last_diag], 0)
    /\ UNCHANGED <<envVars, clientVars, authCount, raceRest>>

\* ---- get_sales_summary, the except clause
RaceFailed(t) ==
    /\ Runs(t)
    /\ Co(t).pc = "failed"
    /\ Step(t, [Co(t) EXCEPT !.pc = "done"], 0)
    /\ UNCHANGED <<envVars, clientVars, authCount, raceRest>>

\* ---- the token's lifetime passes while every coroutine is suspended
RaceTick ==
    /\ tasks.running = 0
    /\ ticks < MaxRaceTicks
    /\ TokenFresh
    /\ \E t \in Tasks : Co(t).pc \in {"pause", "retry_sleep", "refresh_sleep"}
    /\ ticks' = ticks + 1
    /\ now' = now + TOKEN_MINUTES * 60
    /\ UNCHANGED <<pattern, failsLeft, opsDone, clientVars, authCount, tasks,
                   raceRest>>

InitRace ==
    /\ InitAttributes /\ pattern = 0
    /\ fn_arg = None /\ fn_out = None
    /\ tasks = [running |-> 0, co |-> [t \in Tasks |-> NewTask]]

NextRace ==
    \/ \E t \in Tasks : RaceStart(t)
    \/ \E t \in Tasks : RaceOrganization(t)
    \/ \E t \in Tasks : RacePlan(t)
    \/ \E t \in Tasks : RaceEnsureToken(t)
    \/ \E t \in Tasks : RaceAuthResponse(t)
    \/ \E t \in Tasks : RaceHeader(t)
    \/ \E t \in Tasks : RacePostResponse(t)
    \/ \E t \in Tasks : RaceChunkExcept(t)
    \/ \E t \in Tasks : RaceRetryWake(t)
    \/ \E t \in Tasks : RaceDayDone(t)
    \/ \E t \in Tasks : RaceWake(t)
    \/ \E t \in Tasks : RaceLoop(t)
    \/ \E t \in Tasks : RaceFilter(t)
    \/ \E t \in Tasks : RaceSummary(t)
    \/ \E t \in Tasks : RaceFormat(t)
    \/ \E t \in Tasks : RaceFailed(t)
    \/ RaceTick

SpecRace == InitRace /\ [][NextRace]_vars

\* ---------------------------------------------------------------- C3
Range(s) == {s[i] : i \in 1..Len(s)}

\* sub-queries an operation issues whatever the other sub-queries return
IndependentQueries(o) ==
    IF o = "get_sales_data" THEN Range(SALES_QUERIES)
    ELSE Range(PRODUCTIVITY_QUERIES) \ {"cook_dish_rows", "cook_day_rows"}

\* C3: when get_sales_data or get_cook_productivity_data hands its result to
\* the caller, every independent narrow sub-query has been issued and the row
\* set of every sub-query that succeeded is in the result, whichever other
\* sub-queries failed.
C3_SubQueryFailureLeavesOthers ==
    (pc = "op_done" /\ op \in {"get_sales_data", "get_cook_productivity_data"})
        => /\ IndependentQueries(op) \subseteq Range(issued)
           /\ fetched \subseteq results

\* ---------------------------------------------------------------- C4
RequestWaits == {"post_wait", "get_wait", "olap_wait", "or_wait"}

\* C4: a request (_post, _get, _olap_request) answered with an authentication
\* rejection clears the stored token of its client and is not yet handed to
\* the caller as a failure: the request is issued again first.
C4_AuthRejectionClearsTokenAndRetries ==
    [][(pc \in RequestWaits /\ lastStatus' = "401" /\ lastStatus # "401") =>
          /\ IF pc = "post_wait" THEN token' = None ELSE srv_token' = None
          /\ Len(stack') >= Len(stack)]_vars

\* ---------------------------------------------------------------- C5
\* C5: every request that carries the token or session key is preceded by a
\* run of _ensure_token of its own: never two token-carrying requests after
\* one validity check.
C5_EveryRequestRevalidates == sinceCheck <= 1

\* ---------------------------------------------------------------- C6
C6_Valid ==
    /\ token # None
    /\ token_expires # None
    /\ now < token_expires[1]

\* C6: cloud _ensure_token does no auth exchange and leaves token and expiry
\* alone when a token exists and now is before the stored expiry; in every
\* other case (no token, no expiry, now at or past the expiry) it does exactly
\* one auth exchange, and a successful exchange stores a new token with the
\* expiry now + 55 minutes; a failed exchange is raised and stores nothing.
C6_EnsureToken ==
    /\ [][(pc = "et_check" /\ C6_Valid) =>
             /\ pc' # "et_auth"
             /\ pc' = Head(stack)
             /\ UNCHANGED <<token, token_expires, authCount>>]_vars
    /\ [][(pc = "et_check" /\ ~C6_Valid) =>
             /\ pc' = "et_auth"
             /\ UNCHANGED <<token, token_expires, authCount, stack>>]_vars
    /\ [][pc' = "et_auth" => (pc = "et_check" /\ ~C6_Valid)]_vars
    /\ [][pc = "et_auth" =>
             /\ authCount' = authCount + 1
             /\ pc' \notin {"et_auth", "et_check"}
             /\ IF lastStatus' = "ok"
                THEN /\ token' # None /\ token' # token
                     /\ token_expires' = Some(now + 55 * 60)
                     /\ pc' = Head(stack)
                ELSE /\ exc' = "http"
                     /\ UNCHANGED <<token, token_expires>>]_vars

\* the check runs exactly at the stored expiry and goes on to the exchange
C6_Witness ==
    /\ pc = "et_auth"
    /\ token # None
    /\ token_expires # None
    /\ now = token_expires[1]

\* ---------------------------------------------------------------- C7
\* C7: with t the time since the on-prem key was obtained, _ensure_token
\* reuses the key if t < 600 s and runs a new auth exchange if t >= 600 s.
C7_SessionKeyTenMinutes ==
    [][(pc = "set_check" /\ srv_token # None /\ srv_token_time # None) =>
          IF now - srv_token_time[1] < 600
          THEN pc' = Head(stack) /\ srv_token' = srv_token
          ELSE pc' = "set_auth"]_vars

\* ---------------------------------------------------------------- C8
\* C8: with t the time since the catalog was cached, get_nomenclature returns
\* the cached catalog without a request only if t < 1800 s and fetches the
\* catalog again (to re-cache it) whenever t >= 1800 s.
C8_NomenclatureCacheTTL ==
    /\ [][(pc = "nom_start" /\ pc' # "org_start") =>
             /\ nomenclature_cache_time # None
             /\ now - nomenclature_cache_time[1] < 1800
             /\ ret' = nomenclature_cache]_vars
    /\ [][(pc = "nom_start" /\ nomenclature_cache_time # None
              /\ now - nomenclature_cache_time[1] >= 1800) =>
             pc' = "org_start"]_vars
    /\ [][pc = "nom_got" =>
             /\ nomenclature_cache' = ret
             /\ nomenclature_cache_time' = Some(nom_now)]_vars

\* ---------------------------------------------------------------- C11
\* a day request has been started and the day loop has not yet taken its outcome
DayInFlight ==
    \/ pc \in {"col_day_ok", "col_day_err"}
    \/ \E i \in 1..Len(stack) : stack[i] = "col_day_ok"

\* C11: in a multi-day collection at most one day request is in flight; when
\* the request of a day has finished (returned, or failed its last retry) the
\* next day's request starts only after a pause of 2 seconds, and after the
\* last day of the range there is no pause: the loop goes straight to the end.
C11_DayRequestsSerializedWithPause ==
    /\ [](span_days > 0 =>
             Len(chunkLog) = request_count + (IF DayInFlight THEN 1 ELSE 0))
    /\ [][(pc \in {"col_day_ok", "col_day_err"}) =>
             /\ now' = now
             /\ request_count' = request_count + 1
             /\ (current_day' <= dt_to => pc' = "col_pause")
             /\ (current_day' > dt_to => pc' = "col_loop")]_vars
    /\ [][pc = "col_pause" =>
             /\ now' = now + 2
             /\ pc' = "col_loop"
             /\ chunkLog' = chunkLog]_vars
    /\ [][(pc' = "col_loop" /\ pc # "col_loop" /\ current_day' <= dt_to) =>
             (pc = "col_pause" \/ (pc = "col_refreshed" /\ request_count' = 0))]_vars
    /\ [][chunkLog' # chunkLog =>
             (pc \in {"col_fetch", "col_org"} /\ ~DayInFlight)]_vars
    /\ [][pc' = "col_fetch" => pc \in {"col_loop", "col_refresh_sleep"}]_vars

\* the second day's request starts, two seconds or more after the first ended
C11_Witness ==
    /\ pc = "chunk_start"
    /\ request_count = 1
    /\ Len(chunkLog) = 2
    /\ now >= 2

\* ---------------------------------------------------------------- C12
\* C12: against a backend that truncates a single response above ROW_LIMIT
\* rows, a collection none of whose requests failed has gathered exactly the
\* rows one untruncated query over the period returns: none lost, none twice.
C12_DecomposedUnionIsFullDataset ==
    (pc = "col_filter" /\ errors = <<>>) =>
        all_orders = RangeOrders(pattern, dt_from, dt_to)

\* ---------------------------------------------------------------- C13
Unrecognised(t) ==
    \/ t.lead = ""
    \/ t.lead = "x" /\ ~t.tab
    \/ t.lead \in {"{", "["} /\ t.json = "invalid" /\ ~t.tab

CanonicalAliases(field) ==
    IF field = "revenue" THEN <<K_REVENUE, L_REVENUE>>
    ELSE IF field = "revenue_full" THEN <<K_REVENUE_FULL, L_REVENUE_FULL>>
    ELSE IF field = "qty" THEN <<K_QTY, L_QTY>>
    ELSE IF field = "orders" THEN <<K_ORDERS, L_ORDERS>>
    ELSE IF field = "date" THEN <<K_DATE, L_DATE>>
    ELSE IF field = "waiter" THEN <<K_WAITER, L_WAITER>>
    ELSE IF field = "hour" THEN <<K_HOUR, L_HOUR>>
    ELSE IF field = "dish" THEN <<K_DISH, L_DISH>>
    ELSE <<K_GROUP, L_GROUP>>

\* C14: the value a report section uses for a logical field of a row is the
\* first present non-empty value of the field's alias list (English key, then
\* localized label), or the section's zero/placeholder when there is none;
\* so every section that reads the field gets the same value from the row.
C14_OneAliasListPerLogicalField ==
    fn_out # None =>
        /\ \A r \in DOMAIN fn_out[1] :
              fn_out[1][r] = Resolve(fn_arg[1].row,
                                     CanonicalAliases(fn_arg[1].field), r.default)
        /\ \A r1, r2 \in DOMAIN fn_out[1] :
              \/ fn_out[1][r1] = fn_out[1][r2]
              \/ (fn_out[1][r1] = r1.default /\ fn_out[1][r2] = r2.default)

\* ---------------------------------------------------------------- C15
\* bar by the claim's three rules, kitchen otherwise
BarByRules(name, group) ==
    LET g == Strip(Lower(group))
        n == Strip(Lower(name))
    IN  \/ g \in BAR_GROUPS
        \/ \E kw \in BAR_KEYWORDS : Contains(g, kw)
        \/ \E kw \in BAR_KEYWORDS : Contains(n, kw)

Borsch == <<"^b", "o", "r", "7">>
Soups == <<"^s", "u", "p", "8">>
Vinegret == <<"^v", "i", "n", "e", "g", "r", "e", "t">>
Salads == <<"^s", "a", "l", "a", "t", "8">>
TeaAndCoffee == <<"^4", "a", "y", " ", "i", " ", "k", "o", "f", "e">>
WinePadded == <<" ", "^v", "i", "n", "o", " ">>

\* C15: _is_bar_item gives a Boolean for every (name, group): bar if the
\* lower-cased trimmed group is in the bar-group set, else bar if a bar keyword
\* occurs in the group, else bar if a bar keyword occurs in the name, kitchen
\* otherwise; a second call on the same pair, whatever the client's state has
\* become, gives the same answer.
C15_IsBarItemIsTotalAndDeterministic ==
    \A i \in DOMAIN fn_out :
        /\ fn_out[i].item \in BOOLEAN
        /\ fn_out[i].item = BarByRules(fn_arg[1].name, fn_arg[1].group)
        /\ fn_out[i].item = fn_out[1].item
        /\ (fn_arg[1].name = Borsch /\ fn_arg[1].group = Soups) => ~fn_out[i].item
        /\ (fn_arg[1].name = Vinegret /\ fn_arg[1].group = Salads) => fn_out[i].item
        /\ fn_arg[1].group \in {WinePadded, TeaAndCoffee} => fn_out[i].item

\* a keyword inside the name alone decides, on the second call, after the
\* client's state has changed
C15_Witness ==
    /\ Len(fn_out) = 2
    /\ nomenclature_cache # None
    /\ fn_arg[1].name = Vinegret /\ fn_arg[1].group = Salads
    /\ fn_out[2].item

\* ---------------------------------------------------------------- C16
\* C16: the cloud classifier _is_bar_item and the on-prem classifier
\* _is_bar_group give the same answer for every group (and any dish name).
C16_ClassifiersAgree ==
    \A i \in DOMAIN fn_out : fn_out[i].item = fn_out[i].group

\* ---------------------------------------------------------------- C17
\* C17: a stop-list row whose product resolves to a name (by productId, else
\* by sku) or that carries an sku lands in exactly one of the four buckets:
\* stop when balance <= 0, limits when balance > 0, on the side the
\* classifier gives for the resolved (name, group); a row with neither a
\* resolved name nor an sku lands in no bucket.
Catalog(extra) ==
    [k \in DOMAIN PRODUCT_MAP \cup (IF extra = <<>> THEN {} ELSE DOMAIN extra) |->
        IF k \in DOMAIN PRODUCT_MAP THEN PRODUCT_MAP[k]
        ELSE [name |-> extra[k], group |-> Other]]

Resolved(row, extra) ==
    LET cat == Catalog(extra)
    IN IF row.productId \in DOMAIN cat THEN cat[row.productId]
       ELSE IF row.sku \in DOMAIN cat THEN cat[row.sku]
       ELSE [name |-> <<>>, group |-> <<>>]

Placed(row, extra) == Resolved(row, extra).name # <<>> \/ row.sku # ""

ClaimedBucket(row, extra) ==
    LET r == Resolved(row, extra)
        bar == BarByRules(r.name, r.group)
    IN CASE row.balance <= 0 /\ bar -> "bar_stop"
         [] row.balance <= 0 /\ ~bar -> "kitchen_stop"
         [] row.balance > 0 /\ bar -> "bar_limits"
         [] row.balance > 0 /\ ~bar -> "kitchen_limits"

ClaimedLine(row, extra) ==
    LET r == Resolved(row, extra)
    IN [label |-> IF r.name # <<>> THEN [name |-> r.name] ELSE [art |-> row.sku],
        left |-> IF row.balance > 0 THEN Some(row.balance) ELSE None]

C17_EveryLabelledRowInExactlyOneBucket ==
    fn_out # None =>
        LET rows == fn_arg[1].rows
            extra == fn_arg[1].extra
            buckets == fn_out[1]
        IN /\ DOMAIN buckets = BUCKETS
           /\ \A k \in BUCKETS : \A j \in DOMAIN buckets[k] :
                Cardinality({m \in DOMAIN buckets[k] : buckets[k][m] = buckets[k][j]})
                = Cardinality({i \in DOMAIN rows :
                                /\ Placed(rows[i], extra)
                                /\ ClaimedBucket(rows[i], extra) = k
                                /\ ClaimedLine(rows[i], extra) = buckets[k][j]})
           /\ \A i \in DOMAIN rows :
                Placed(rows[i], extra) =>
                    \E j \in DOMAIN buckets[ClaimedBucket(rows[i], extra)] :
                        buckets[ClaimedBucket(rows[i], extra)][j]
                            = ClaimedLine(rows[i], extra)

C17_Witness ==
    /\ fn_out # None
    /\ fn_arg[1].rows[1] = [productId |-> "p1", sku |-> "", balance |-> 0]
    /\ Len(fn_out[1]["kitchen_stop"]) = 1
    /\ fn_out[1]["kitchen_stop"][1].label = [name |-> Borsch]

\* ---------------------------------------------------------------- C18
\* C18: the value of a line item is the first strictly positive of cost,
\* resultSum, sum, price x amount, and 0 if none is positive; the revenue of
\* an order is the sum of its item values, or the order-level sum when that
\* sum is zero; total revenue is the sum of the order revenues (orders of
\* 500, 300 via resultSum and 700 give 1500, average check 500).
FirstPositive(values) ==
    IF \E i \in DOMAIN values : values[i] > 0
    THEN values[CHOOSE i \in DOMAIN values :
                    values[i] > 0 /\ \A j \in 1..(i - 1) : values[j] <= 0]
    ELSE 0

Given(field, default) == IF field = None THEN default ELSE field[1]

ClaimedItemValue(item) ==
    FirstPositive(<<Given(item.cost, 0), Given(item.resultSum, 0),
                    Given(item.sum, 0),
                    Given(item.price, 0) * Given(item.amount, 1)>>)

RECURSIVE ClaimedItemTotal(_)
ClaimedItemTotal(items) ==
    IF items = <<>> THEN 0
    ELSE ClaimedItemValue(Head(items)) + ClaimedItemTotal(Tail(items))

ClaimedOrderRevenue(order) ==
    IF ClaimedItemTotal(order.items) # 0 THEN ClaimedItemTotal(order.items)
    ELSE OrderSumFallback(order)

RECURSIVE ClaimedRevenue(_, _)
ClaimedRevenue(orders, n) ==
    IF n = 0 THEN 0
    ELSE ClaimedRevenue(orders, n - 1) + ClaimedOrderRevenue(orders[n])

Analyzing == fn_out # None /\ fn_out[1].at \in {"loop", "returned", "totals"}

C18_RevenueIsSumOfFirstPositiveItemValues ==
    Analyzing =>
        fn_out[1].total_revenue = ClaimedRevenue(fn_arg[1].orders, fn_out[1].done)

\* ---------------------------------------------------------------- C19
\* C19: in every analysis result and every PeriodTotals, avg_check is total
\* revenue divided by the total order count, taken once over the totals,
\* and is 0 when the order count is 0; no path divides by zero, the on-prem
\* summary with zero orders included.
IsRatioOf(q, revenue, orders) ==
    /\ q.den > 0
    /\ q.num * orders = revenue * q.den
    /\ orders = 0 => q = Zero

C19_AvgCheckIsRevenueOverOrdersOrZero ==
    fn_out # None =>
        /\ fn_out[1].at = "returned" =>
              /\ fn_out[1].avg_check # None
              /\ fn_out[1].total_orders = Len(fn_arg[1].orders)
              /\ IsRatioOf(fn_out[1].avg_check[1], fn_out[1].total_revenue,
                           fn_out[1].total_orders)
        /\ fn_out[1].at = "totals" =>
              /\ fn_out[1].totals # None
              /\ fn_out[1].totals[1].orders = Len(fn_arg[1].orders)
              /\ IsRatioOf(fn_out[1].totals[1].avg_check,
                           fn_out[1].totals[1].revenue,
                           fn_out[1].totals[1].orders)
        /\ fn_out[1].at = "server" =>
              IF fn_out[1].total_orders = 0 THEN fn_out[1].avg_line = None
              ELSE /\ fn_out[1].avg_line # None
                   /\ IsRatioOf(fn_out[1].avg_line[1], fn_out[1].total_revenue,
                                fn_out[1].total_orders)

\* three orders of 500, 300 (through resultSum) and 700: 1500 and 500
C19_Witness ==
    /\ fn_out # None /\ fn_out[1].at = "totals"
    /\ Len(fn_arg[1].orders) = 3
    /\ \A n \in 1..3 : Len(fn_arg[1].orders[n].items) = 1
    /\ fn_arg[1].orders[1].items[1].cost = Some(500)
    /\ fn_arg[1].orders[2].items[1].resultSum = Some(300)
    /\ fn_arg[1].orders[3].sum = Some(700)
    /\ fn_out[1].totals[1] = [revenue |-> 1500, orders |-> 3,
                              avg_check |-> [num |-> 500, den |-> 1]]

\* ---------------------------------------------------------------- C20
\* C20: while the orders are folded, whatever the numeric fields (negative
\* ones included), total_revenue, every dish's qty and revenue, every
\* waiter's orders and revenue and every hourly count are >= 0 after each
\* order and never decrease from one order to the next.
NonNegative(acc) ==
    /\ acc.total_revenue >= 0
    /\ \A d \in DOMAIN acc.dish_sales :
          acc.dish_sales[d].qty >= 0 /\ acc.dish_sales[d].revenue >= 0
    /\ \A w \in DOMAIN acc.waiter_stats :
          acc.waiter_stats[w].orders >= 0 /\ acc.waiter_stats[w].revenue >= 0
    /\ \A h \in DOMAIN acc.hourly : acc.hourly[h] >= 0

NonDecreasing(old, new) ==
    /\ new.total_revenue >= old.total_revenue
    /\ \A d \in DOMAIN old.dish_sales :
          /\ d \in DOMAIN new.dish_sales
          /\ new.dish_sales[d].qty >= old.dish_sales[d].qty
          /\ new.dish_sales[d].revenue >= old.dish_sales[d].revenue
    /\ \A w \in DOMAIN old.waiter_stats :
          /\ w \in DOMAIN new.waiter_stats
          /\ new.waiter_stats[w].orders >= old.waiter_stats[w].orders
          /\ new.waiter_stats[w].revenue >= old.waiter_stats[w].revenue
    /\ \A h \in DOMAIN old.hourly :
          h \in DOMAIN new.hourly /\ new.hourly[h] >= old.hourly[h]

AnalyzingNext == fn_out' # None /\ fn_out'[1].at \in {"loop", "returned", "totals"}

C20_AccumulatorsNonNegativeAndMonotone ==
    [][/\ AnalyzingNext => NonNegative(fn_out'[1])
       /\ (Analyzing /\ AnalyzingNext) => NonDecreasing(fn_out[1], fn_out'[1])]_vars

\* ---------------------------------------------------------------- C21
\* C21: the coefficient is computed only when the effective headcount and
\* the effective wage are both strictly positive; when either is
\* non-positive the report has the 'configuration missing' section naming
\* the missing input(s) and no coefficient; no division has a zero divisor,
\* and the day count is at least 1 even with no day rows.
Reported == fn_out # None /\ fn_out[1].at = "report"

C21_CoefficientOnlyWithPositiveHeadcountAndWage ==
    Reported =>
        LET r == fn_out[1]
        IN /\ r.section = "coefficient" =>
                r.effective_cooks > 0 /\ r.effective_salary > 0
           /\ (r.effective_cooks <= 0 \/ r.effective_salary <= 0) =>
                /\ r.section = "missing"
                /\ "coeff_total" \notin DOMAIN r
                /\ r.missing # {}
                /\ ("cooks" \in r.missing) = (r.effective_cooks <= 0)
                /\ ("salary" \in r.missing) = (r.effective_salary <= 0)
           /\ 0 \notin r.divisors
           /\ r.section = "coefficient" => r.coeff_total.den # 0
           /\ r.num_days >= 1
           /\ fn_arg[1].day_rows = <<>> => r.num_days = 1

C21_Witness ==
    /\ Reported
    /\ fn_out[1].section = "missing"
    /\ fn_out[1].missing = {"salary"}
    /\ fn_arg[1].day_rows = <<>>
    /\ fn_arg[1].dish_group_rows # <<>>

\* ---------------------------------------------------------------- C22
\* C22: the coefficient is (kitchenRevenue / days / headcount) / wage, where
\* kitchenRevenue sums only the rows not classified as bar, and the report
\* gives it exactly one band: excellent when >= 3, good when 2 <= c < 3,
\* satisfactory when 1 <= c < 2, low when c < 1.
RECURSIVE KitchenRevenue(_)
KitchenRevenue(rows) ==
    IF rows = <<>> THEN 0
    ELSE (IF BarByRules(<<>>, Head(rows).group) THEN 0 ELSE Head(rows).revenue)
         + KitchenRevenue(Tail(rows))

C22_CoefficientAndBand ==
    (Reported /\ fn_out[1].section = "coefficient") =>
        LET r == fn_out[1]
            c == r.coeff_total
            product == r.num_days * r.effective_cooks * r.effective_salary
        IN /\ c.den > 0
           /\ c.num * product = KitchenRevenue(fn_arg[1].dish_group_rows) * c.den
           /\ r.band = CASE c.num >= 3 * c.den -> "excellent"
                         [] c.num >= 2 * c.den /\ c.num < 3 * c.den -> "good"
                         [] c.num >= c.den /\ c.num < 2 * c.den -> "satisfactory"
                         [] c.num < c.den -> "low"

\* ---------------------------------------------------------------- C27
\* C27: the effective per-shift wage is the first strictly positive of
\* salary sheet -> backend-recorded average -> static configured value:
\* whenever the sheet yields a positive average rate for the cooks, the wage
\* used is derived from the sheet and not from the static configuration.
SheetYieldsRate ==
    /\ fn_arg[1].sheet # None
    /\ \E i \in DOMAIN fn_arg[1].sheet[1] : fn_arg[1].sheet[1][i] > 0

C27_SheetWageTakesPriority ==
    (fn_out # None /\ fn_out[1].at \in {"wage", "report"} /\ SheetYieldsRate) =>
        /\ fn_out[1].sheet_salary > 0
        /\ fn_out[1].cook_salary = fn_out[1].sheet_salary
        /\ fn_out[1].at = "report" =>
              fn_out[1].effective_salary = fn_out[1].sheet_salary

\* ---------------------------------------------------------------- C23
\* C23: cloud get_sales_summary never raises: whatever fails during the run
\* (organization, authentication, a day's request, the catalog read of the
\* analysis), it returns readable text: the report, the 'no orders found'
\* text, or a one-line error message.
C23_SalesSummaryNeverRaises ==
    op = "get_sales_summary" =>
        /\ pc # "uncaught"
        /\ (pc = "idle" /\ result # None) =>
              result[1].kind \in {"report", "empty", "error_text"}

C23_Witness ==
    /\ op = "get_sales_summary"
    /\ pc = "idle" /\ result # None
    /\ result[1].kind = "error_text"
    /\ exc # "none"

\* ---------------------------------------------------------------- C24
\* C24: after a run of _collect_all_orders that returns, the diagnostics fit
\* the run: days_ok + error_count = days_total with 0 <= days_ok <=
\* days_total, days_total is the number of calendar days of the range,
\* deleted_orders is the number of fetched orders dropped as deleted, and
\* total_orders + deleted_orders is the number of orders fetched.
RECURSIVE CalendarDays(_, _)
CalendarDays(a, b) ==
    IF a = b THEN 1 ELSE 1 + CalendarDays(NextDate(a), b)

RECURSIVE FetchedCount(_)
FetchedCount(success) ==
    IF success = <<>> THEN 0
    ELSE Head(success)[2] + FetchedCount(Tail(success))

CollectionReturned == pc = "op_collected" /\ last_diag # None

ForcedRefreshStep ==
    /\ pc \in {"col_org", "col_loop"}
    /\ token' = None
    /\ pc' = "et_check"

ForcedRefreshes(days) == IF days > 1 THEN 1 + ((days - 1) \div 10) ELSE 0

C26_ForcedRefreshEveryTenthRequest ==
    [][/\ (pc = "col_org") => (ForcedRefreshStep <=> span_days' >= 1)
       /\ (pc = "col_loop" /\ current_day <= dt_to) =>
             (ForcedRefreshStep <=>
                 (request_count > 0 /\ request_count % 10 = 0))
       /\ (pc = "col_loop" /\ current_day > dt_to) => ~ForcedRefreshStep
       /\ (pc = "et_check" /\ token = None) => pc' = "et_auth"
       /\ (pc = "et_auth") => authCount' = authCount + 1
       /\ (pc' = "op_collected" /\ last_diag' # None /\ failsLeft' = MaxFails)
             => authCount' = 1 + ForcedRefreshes(last_diag'[1].days_total)]_vars

C26_Witness ==
    /\ pc = "op_collected" /\ last_diag # None
    /\ failsLeft = MaxFails
    /\ last_diag[1].days_total = 31
    /\ request_count = 31
    /\ authCount = 5

\* ---------------------------------------------------------------- C30
\* C30: once a multi-day collection is in its day loop, a request is
\* attempted for every calendar day from date_from to date_to and the run
\* ends by recording diagnostics and returning the filtered orders, whatever
\* fails while earlier days are processed, the forced token refresh before
\* every tenth request included.
InDayLoop == span_days > 0 /\ current_day >= dt_from /\ dt_from > 0

C30_DayLoopRunsToTheEnd ==
    (pc = "idle" /\ result # None /\ InDayLoop) =>
        /\ Len(chunkLog) = span_days + 1
        /\ last_diag # None
        /\ last_diag[1].days_total = span_days + 1

\* ---------------------------------------------------------------- C25
\* C25: the token refresh is not mutually exclusive.  Two coroutines that
\* share one client can both have an auth exchange in flight for the same
\* absent or expired token; whenever a response arrives after another
\* exchange has completed during its flight, the later response replaces the
\* earlier token, and the client then holds a token and an expiry.
AuthStoredBy(t) ==
    /\ Co(t).pc = "auth_wait"
    /\ tasks'.co[t].pc \notin {"auth_wait", "chunk_except", "failed"}

C25_RedundantRefreshStillStoresToken ==
    [][\A t \in Tasks :
          (AuthStoredBy(t) /\ Co(t).raced) =>
              /\ token' = Some(t)
              /\ token' # token
              /\ token_expires' = Some(now + TOKEN_MINUTES * 60)
              /\ tasks'.co[t].overwrote]_vars

C25_Witness ==
    /\ \E t \in Tasks : Co(t).overwrote /\ token = Some(t)
    /\ token_expires # None

C25_BothInFlight ==
    \A t \in Tasks : Co(t).pc = "auth_wait" /\ ~Co(t).raced

\* ---------------------------------------------------------------- C28
\* C28: whatever the interleaving of the two coroutines, every request that
\* _post has sent carries in its header a token, and that token is one that
\* a completed auth exchange stored; it is never None, even while another
\* coroutine has set the client's token to None.
C28_NoRequestWithoutToken ==
    \A t \in Tasks :
        Co(t).pc = "post_wait" =>
            /\ Co(t).sent # None
            /\ Co(t).sent[1] # None
            /\ Co(t).sent[1][1] \in Tasks

C28_Witness ==
    \E t \in Tasks :
        /\ Co(t).pc = "post_wait"
        /\ Co(t).sent # None
        /\ Co(t).sent[1] # None
        /\ token = None
        /\ \E u \in Tasks \ {t} : Co(u).pc = "auth_wait" /\ Co(u).site \in {"chunk", "loop"}

\* ---------------------------------------------------------------- C29
\* C29: when two report requests run concurrently on one client, the
\* diagnostics rendered into a summary are those that the same request's
\* collection recorded, never those of the other request.
C29_DiagnosticsOfTheSameRequest ==
    \A t \in Tasks :
        Co(t).rendered # None => Co(t).rendered[1].owner = t

====
